---- MODULE Spec2Model ----
(***************************************************************************)
(* Points ledger, wager placement / sell-back and the three settlement     *)
(* entry points of realmadrid-bot:                                         *)
(*   bot.py       settle_all_bets           (scheduler + /settle command)  *)
(*   api.py       settle_all_bets_advanced  (settle-check / settle-manual) *)
(*   database.py  settle_all_for_match      (API background task)          *)
(*                                                                         *)
(* Spec runs whole handlers one after another; SpecConc interleaves the    *)
(* SQL statements of a bot-side and an API-side settlement call, SpecRace  *)
(* those of a bot-side settlement and a placement, SpecCrash cuts a bot    *)
(* pass between two statements. SpecResolve feeds the resolvers every key  *)
(* family; SpecSched runs the three schedulers with their settled markers. *)
(* SpecSell sells wagers of several stakes back, SpecOps runs every ledger *)
(* operation against a feed whose prices move, SpecNorm parses raw market  *)
(* lists of the odds feed, SpecCatalog builds the live catalogue from a    *)
(* snapshot and a score, SpecFloor stakes a balance down to the penalty,   *)
(* SpecSellRace interleaves a sell-back with the statements of a           *)
(* settlement, SpecCover feeds both resolvers every key of the normalizer, *)
(* SpecBad queues a wager whose line cannot be read, SpecRepair re-points  *)
(* wagers to a match id the schedulers have examined.                      *)
(*                                                                         *)
(* Conventions                                                             *)
(*  - Odds are decimal prices in hundredths (185 = 1.85); int(amount*odds) *)
(*    truncates, which for the positive operands used here is the floor.   *)
(*    Binary floating point rounding of the product is not modelled.       *)
(*  - Lines of over/under and handicap keys are in tenths (25 = "2.5").    *)
(*  - An outcome key "<prefix><line>" is the record [live, tag, line]; tag *)
(*    is the textual prefix exactly as it is written in the key, so that   *)
(*    startswith()/== dispatch is equality on tag.                         *)
(*  - The SQLite schema is taken to contain every column the statements    *)
(*    name (bets.payout, users.referred_by, users.predictions_incorrect).  *)
(*  - A SQL NULL / Python None in an integer position is the integer NULL,*)
(*    a value no balance, amount or id takes.                              *)
(*  - Market and runner names of the odds feed are written in Latin       *)
(*    letters; the rule a name selects is the one its Russian text selects.*)
(***************************************************************************)
EXTENDS Integers, Sequences, FiniteSets, TLC

\* ---------------------------------------------------------------- bounds
MaxBets == 2
MaxPreds == 1
MaxDeposits == 1
MaxMarkets == 2
MaxRunners == 2

\* ------------------------------------------------------------- constants
NULL == -99999
None == "None"
Raise == "Raise"
BadLine == -999
NoOdds == 0

Users == {1, 2}
Matches == {"m1", "m2"}
PlaceMatches == {"m1"}

WelcomeBonus == 50
ReferralBonus == 25
ScoreOdds == 3000
DepositAmount == 100

Req(u, key, amount) == [user |-> u, key |-> key, amount |-> amount]
PredChoices == {"home", "away"}

\* ------------------------------------------------------------ outcome keys
Key(tag, line) == [live |-> FALSE, tag |-> tag, line |-> line]

LiveKey(k) == [k EXCEPT !.live = TRUE]

K_home == Key("home", 0)
K_total_over_2 == Key("total_over_", 20)
K_first_goal_home == Key("first_goal_home", 0)

PlaceKeys == {K_home, K_total_over_2, K_first_goal_home}

\* the placement requests exercised
PlaceRequests ==
    {Req(1, K_home, 20), Req(1, K_home, 100), Req(1, K_total_over_2, 20),
     Req(1, K_first_goal_home, 20), Req(1, K_home, 0), Req(2, K_home, 20)}

\* ------------------------------------------------------------- statistics
\* bot.get_first_goal_team: decided by the score when a side did not score,
\* else by the ESPN lookup, whose answer espn is "home", "away" or "" (none)
get_first_goal_team(h, a, espn) ==
    IF h = 0 /\ a = 0 THEN "none"
    ELSE IF h > 0 /\ a = 0 THEN "home"
    ELSE IF a > 0 /\ h = 0 THEN "away"
    ELSE espn

MkStats(h, a, corners, yellow, fg) ==
    [home_score |-> h, away_score |-> a, total_goals |-> h + a,
     home_corners |-> corners, away_corners |-> 0, total_corners |-> corners,
     home_yellow |-> yellow, away_yellow |-> 0, total_yellow |-> yellow,
     both_scored |-> (h > 0 /\ a > 0),
     outcome |-> IF h > a THEN "home" ELSE IF a > h THEN "away" ELSE "draw",
     has_penalty |-> FALSE,
     first_goal |-> get_first_goal_team(h, a, fg)]

\* 2:0, first goal by the home side
S20 == MkStats(2, 0, 4, 2, "")
\* 1:2, first goal by the home side
S12 == MkStats(1, 2, 4, 2, "home")

StatsSet == {S20}

\* ---------------------------------------------------------------- feed
OpenSnap ==
    [bets_suspended |-> FALSE,
     live_odds |-> [k \in PlaceKeys |->
                      IF k = K_home THEN 185
                      ELSE IF k = K_total_over_2 THEN 200 ELSE 150]]

SuspSnap == [OpenSnap EXCEPT !.bets_suspended = TRUE]

Snapshots == {OpenSnap, SuspSnap}

\* the feed after the price of "home" has moved
RefreshedSnap == [OpenSnap EXCEPT !.live_odds[K_home] = 210]

\* ------------------------------------------------------------------ state
VARIABLES
    balance,          \* users.balance
    wager_remaining,  \* users.wager_remaining
    referred_by,      \* users.referred_by
    bets,             \* table bets, bet_id = index
    predictions,      \* table predictions, prediction_id = index
    transactions,     \* table transactions: each user's rows in insertion order
    botRun,           \* bot process: position and locals of a settle_all_bets call
    apiRun,           \* API process: position and locals of a settle_all_bets_advanced call
    botSettled,       \* bot process: the set _settled of auto_settle
    apiSettled,       \* API process: the set _settled_matches
    leonMarkets,      \* the raw market list of the last response of the odds API
    leonCache,        \* API process: _leon_cache['data'], odds and open_markets
    liveScore,        \* the score text of the live event, as the feed gives it
    betMarkets        \* the bet_markets list of the last matches response

dbvars == <<balance, wager_remaining, referred_by, bets, predictions, transactions>>

\* the schedulers' in-memory settled markers
marks == <<botSettled, apiSettled>>

\* the odds feed as the API process holds it
feed == <<leonMarkets, leonCache, liveScore, betMarkets>>

vars == <<balance, wager_remaining, referred_by, bets, predictions, transactions,
          botRun, apiRun, botSettled, apiSettled, leonMarkets, leonCache,
          liveScore, betMarkets>>

\* The database as one value, so that statements compose.
DB ==
    [balance |-> balance, wager_remaining |-> wager_remaining,
     bets |-> bets, predictions |-> predictions, transactions |-> transactions]

\* the database after a statement
Write(d) ==
    /\ balance' = d.balance
    /\ wager_remaining' = d.wager_remaining
    /\ bets' = d.bets
    /\ predictions' = d.predictions
    /\ transactions' = d.transactions
    /\ UNCHANGED referred_by

\* the database after a handler that runs with no call in progress beside it
Commit(d) == Write(d) /\ UNCHANGED <<botRun, apiRun, marks, feed>>

Tx(u, type, amount, before, after, ref) ==
    [user |-> u, type |-> type, amount |-> amount,
     balance_before |-> before, balance_after |-> after, reference_id |-> ref]

InsertTx(d, t) == [d EXCEPT !.transactions[t.user] = Append(@, t)]

SetBalance(d, u, v) == [d EXCEPT !.balance[u] = v]

AddBalance(d, u, a) == [d EXCEPT !.balance[u] = @ + a]

\* an UPDATE bets SET status that matches no row
SetBetStatus_NoRow(d, id, st) == d

SetBetStatus(d, id, st) == [d EXCEPT !.bets[id].status = st]

SetPredStatus(d, id, st) == [d EXCEPT !.predictions[id].status = st]

\* int(amount * odds)
IntMul(amount, odds) == (amount * odds) \div 100

\* create_user: balance 50 and the welcome bonus row
\* no call in progress
\* a score text "h:a"; ok is FALSE for a text _build_live_markets cannot
\* split into two integers (None before the match, any other wording)
ScoreText(ok, h, a) == [ok |-> ok, hs |-> h, as |-> a]

NoScore == ScoreText(FALSE, 0, 0)

\* _leon_cache['data'] before the first fetch
NotFetched == [odds |-> <<>>, open_markets |-> 0]

Idle == [pc |-> "idle", m |-> "", stats |-> S20, queue |-> <<>>, bal |-> 0]

Init ==
    /\ balance = [u \in Users |-> WelcomeBonus]
    /\ wager_remaining = [u \in Users |-> 0]
    /\ referred_by = [u \in Users |-> IF u = 2 THEN 1 ELSE NULL]
    /\ bets = <<>>
    /\ predictions = <<>>
    /\ transactions = [u \in Users |->
                          <<Tx(u, "bonus", WelcomeBonus, 0, WelcomeBonus, NULL)>>]
    /\ botRun = Idle
    /\ apiRun = Idle
    /\ botSettled = {}
    /\ apiSettled = {}
    /\ leonMarkets = <<>>
    /\ leonCache = NotFetched
    /\ liveScore = NoScore
    /\ betMarkets = <<>>

\* ----------------------------------------------------------------- ledger
\* database.update_user_balance adding every credit to the playthrough
update_user_balance_always_wager(d, u, amount, type, ref, affect_wager) ==
    LET balance_before == d.balance[u]
        wager_before == d.wager_remaining[u]
        balance_after == balance_before + amount
        wager_after == IF amount > 0 THEN wager_before + amount ELSE wager_before
    IN IF balance_after < 0
       THEN [ok |-> FALSE, db |-> d]
       ELSE [ok |-> TRUE,
             db |-> InsertTx([d EXCEPT !.balance[u] = balance_after,
                                       !.wager_remaining[u] = wager_after],
                             Tx(u, type, amount, balance_before, balance_after, ref))]

\* update_user_balance
update_user_balance(d, u, amount, type, ref, affect_wager) ==
    LET balance_before == d.balance[u]
        wager_before == d.wager_remaining[u]
        balance_after == balance_before + amount
        wager_after == IF affect_wager /\ amount > 0
                       THEN wager_before + amount ELSE wager_before
    IN IF balance_after < 0
       THEN [ok |-> FALSE, db |-> d]
       ELSE [ok |-> TRUE,
             db |-> InsertTx([d EXCEPT !.balance[u] = balance_after,
                                       !.wager_remaining[u] = wager_after],
                             Tx(u, type, amount, balance_before, balance_after, ref))]

\* admin_add_points
Deposit(u) ==
    /\ Cardinality({i \in DOMAIN transactions[u] :
                       transactions[u][i].type = "deposit"}) < MaxDeposits
    /\ Commit(update_user_balance(DB, u, DepositAmount, "deposit", NULL, TRUE).db)

\* ------------------------------------------------------------- placement
\* database.place_bet with the playthrough left unclamped
place_bet_unclamped(d, u, m, key, amount, odds) ==
    IF d.balance[u] < amount
    THEN [bet_id |-> NULL, db |-> d]
    ELSE LET balance_before == d.balance[u]
             bet_id == Len(d.bets) + 1
             row == [user |-> u, match |-> m, key |-> key, amount |-> amount,
                     odds |-> odds, potential_win |-> IntMul(amount, odds),
                     status |-> "pending"]
         IN [bet_id |-> bet_id,
             db |-> InsertTx([d EXCEPT !.balance[u] = balance_before - amount,
                                       !.wager_remaining[u] = @ - amount,
                                       !.bets = Append(@, row)],
                             Tx(u, "bet", -amount, balance_before,
                                balance_before - amount, bet_id))]

\* database.place_bet; NULL when the stake exceeds the balance
place_bet(d, u, m, key, amount, odds) ==
    IF d.balance[u] < amount
    THEN [bet_id |-> NULL, db |-> d]
    ELSE LET potential_win == IntMul(amount, odds)
             balance_before == d.balance[u]
             balance_after == balance_before - amount
             wager_before == d.wager_remaining[u]
             wager_after == IF wager_before - amount > 0 THEN wager_before - amount ELSE 0
             bet_id == Len(d.bets) + 1
             row == [user |-> u, match |-> m, key |-> key, amount |-> amount,
                     odds |-> odds, potential_win |-> potential_win,
                     status |-> "pending"]
         IN [bet_id |-> bet_id,
             db |-> InsertTx([d EXCEPT !.balance[u] = balance_after,
                                       !.wager_remaining[u] = wager_after,
                                       !.bets = Append(@, row)],
                             Tx(u, "bet", -amount, balance_before, balance_after, bet_id))]

\* api.process_referral_bonus
process_referral_bonus(d, referrer, u) ==
    IF referrer = NULL
       \/ \E i \in DOMAIN d.transactions[u] :
             /\ d.transactions[u][i].type = "referral_bonus"
             /\ d.transactions[u][i].reference_id = referrer
    THEN d
    ELSE LET rb == d.balance[referrer]
             d1 == InsertTx(AddBalance(d, referrer, ReferralBonus),
                            Tx(referrer, "referral_bonus", ReferralBonus, rb, rb + ReferralBonus, u))
             ub == d1.balance[u]
         IN InsertTx(AddBalance(d1, u, ReferralBonus),
                     Tx(u, "referral_bonus", ReferralBonus, ub, ub + ReferralBonus, referrer))

UserBets(d, u) == {i \in DOMAIN d.bets : d.bets[i].user = u}

\* The price api.place_bet_endpoint fixes for a key; NoOdds when none is found
EndpointOdds(key, snap) ==
    IF key.tag = "score_" THEN ScoreOdds
    ELSE IF key \in DOMAIN snap.live_odds /\ snap.live_odds[key] # 0
         THEN snap.live_odds[key]
         ELSE NoOdds

\* api.place_bet_endpoint without its check of the stake's sign
place_bet_endpoint_any_stake(d, referrer, u, m, key, amount, snap, late) ==
    LET odds == EndpointOdds(key, snap)
        rejected == amount > d.balance[u] \/ late \/ snap.bets_suspended \/ odds = NoOdds
        r == place_bet(d, u, m, key, amount, odds)
    IN IF rejected \/ r.bet_id = NULL
       THEN [ok |-> FALSE, db |-> d]
       ELSE [ok |-> TRUE,
             db |-> IF Cardinality(UserBets(r.db, u)) = 1
                    THEN process_referral_bonus(r.db, referrer, u)
                    ELSE r.db]

\* api.place_bet_endpoint: the response (ok) and the database it leaves
place_bet_endpoint(d, referrer, u, m, key, amount, snap, late) ==
    LET odds == EndpointOdds(key, snap)
        rejected == \/ amount <= 0
                    \/ amount > d.balance[u]
                    \/ late
                    \/ snap.bets_suspended
                    \/ odds = NoOdds
        r == place_bet(d, u, m, key, amount, odds)
    IN IF rejected \/ r.bet_id = NULL
       THEN [ok |-> FALSE, db |-> d]
       ELSE [ok |-> TRUE,
             db |-> IF Cardinality(UserBets(r.db, u)) = 1
                    THEN process_referral_bonus(r.db, referrer, u)
                    ELSE r.db]

PlaceBet(u, m, key, amount, snap, late) ==
    /\ Len(bets) < MaxBets
    /\ Commit(place_bet_endpoint(DB, referred_by[u], u, m, key, amount, snap, late).db)

\* api.place_live_bet without its check of bets_suspended
place_live_bet_no_suspension(d, u, m, key, amount, odds, snap, is_live) ==
    LET rejected == amount <= 0 \/ amount > d.balance[u] \/ ~is_live
        current_odds == IF key \in DOMAIN snap.live_odds THEN snap.live_odds[key]
                        ELSE NoOdds
        used == IF current_odds # NoOdds /\ current_odds # odds THEN current_odds ELSE odds
        r == place_bet(d, u, m, LiveKey(key), amount, used)
    IN IF rejected \/ r.bet_id = NULL
       THEN [ok |-> FALSE, db |-> d]
       ELSE [ok |-> TRUE, db |-> r.db]

\* api.place_live_bet: bet_type and odds come from the client; the feed's
\* price replaces the client's when the feed has one for bet_type
place_live_bet(d, u, m, key, amount, odds, snap, is_live) ==
    LET rejected == \/ amount <= 0
                    \/ amount > d.balance[u]
                    \/ ~is_live
                    \/ snap.bets_suspended
        current_odds == IF key \in DOMAIN snap.live_odds THEN snap.live_odds[key]
                        ELSE NoOdds
        used == IF current_odds # NoOdds /\ current_odds # odds THEN current_odds ELSE odds
        r == place_bet(d, u, m, LiveKey(key), amount, used)
    IN IF rejected \/ r.bet_id = NULL
       THEN [ok |-> FALSE, db |-> d]
       ELSE [ok |-> TRUE, db |-> r.db]

PlaceLiveBet(u, m, key, amount, odds, snap, is_live) ==
    /\ Len(bets) < MaxBets
    /\ Commit(place_live_bet(DB, u, m, key, amount, odds, snap, is_live).db)

\* the HTTPException api.place_bet_endpoint raises, by the order of its
\* checks; "none" for a request that reaches place_bet
place_bet_endpoint_detail(d, u, key, amount, snap, late) ==
    IF amount <= 0 THEN "amount"
    ELSE IF amount > d.balance[u] THEN "balance"
    ELSE IF late THEN "closed"
    ELSE IF snap.bets_suspended THEN "suspended"
    ELSE IF EndpointOdds(key, snap) = NoOdds THEN "no_odds"
    ELSE "none"

\* the HTTPException api.place_live_bet raises, by the order of its checks
place_live_bet_detail(d, u, amount, snap, is_live) ==
    IF amount <= 0 THEN "amount"
    ELSE IF amount > d.balance[u] THEN "balance"
    ELSE IF ~is_live THEN "no_live"
    ELSE IF snap.bets_suspended THEN "suspended"
    ELSE "none"

\* ---------------------------------------------------------------- resolvers
\* float(<line text>) > / < comparisons; a line that does not parse raises
Over(stat, line) ==
    IF line = BadLine THEN Raise ELSE IF stat * 10 > line THEN "won" ELSE "lost"

Under(stat, line) ==
    IF line = BadLine THEN Raise ELSE IF stat * 10 < line THEN "won" ELSE "lost"

Bool(b) == IF b THEN "won" ELSE "lost"

\* exact-score keys carry home*100 + away as their line
ScoreLine(h, a) == h * 100 + a

\* bet_type.startswith('first_goal_'), over the tags the model uses
StartsWithFirstGoal(t) ==
    t \in {"first_goal_home", "first_goal_away", "first_goal_none", "first_goal_x"}

\* bot.check_bet_won: "won" (True), "lost" (False), None or Raise
check_bet_won(key, stats) ==
    LET t == key.tag
        l == key.line
        outcome == stats.outcome
        hs == stats.home_score
        as == stats.away_score
        total == stats.total_goals
    IN CASE t \in {"home", "draw", "away"} -> Bool(t = outcome)
         [] t = "score_" -> Bool(l = ScoreLine(hs, as))
         [] t = "total_over_" -> Over(total, l)
         [] t = "total_under_" -> Under(total, l)
         [] t = "btts_yes" -> Bool(stats.both_scored)
         [] t = "btts_no" -> Bool(~stats.both_scored)
         [] t = "total_even" -> Bool(total % 2 = 0)
         [] t = "total_odd" -> Bool(total % 2 = 1)
         [] t = "corners_over_" -> Over(stats.total_corners, l)
         [] t = "corners_under_" -> Under(stats.total_corners, l)
         [] t = "cards_over_" -> Over(stats.total_yellow, l)
         [] t = "cards_under_" -> Under(stats.total_yellow, l)
         [] t = "home_over_" -> Over(hs, l)
         [] t = "home_under_" -> Under(hs, l)
         [] t = "away_over_" -> Over(as, l)
         [] t = "away_under_" -> Under(as, l)
         [] t = "penalty_yes" -> Bool(stats.has_penalty)
         [] t = "penalty_no" -> Bool(~stats.has_penalty)
         [] t = "dc_1x" -> Bool(outcome \in {"home", "draw"})
         [] t = "dc_x2" -> Bool(outcome \in {"draw", "away"})
         [] t = "dc_12" -> Bool(outcome \in {"home", "away"})
         [] t = "dnb_home" -> Bool(outcome = "home")
         [] t = "dnb_away" -> Bool(outcome = "away")
         [] StartsWithFirstGoal(t) ->
                IF stats.first_goal = "" THEN None
                ELSE IF t = "first_goal_home" THEN Bool(stats.first_goal = "home")
                ELSE IF t = "first_goal_away" THEN Bool(stats.first_goal = "away")
                ELSE IF t = "first_goal_none" THEN Bool(stats.first_goal = "none")
                ELSE "lost"
         [] t \in {"handicap_home_", "asian_home_"} ->
                IF l = BadLine THEN Raise ELSE Bool((hs - as) * 10 + l > 0)
         [] t \in {"handicap_away_", "asian_away_"} ->
                IF l = BadLine THEN Raise ELSE Bool((as - hs) * 10 + l > 0)
         [] t = "corners_home_over_" -> Over(stats.home_corners, l)
         [] t = "corners_home_under_" -> Under(stats.home_corners, l)
         [] t = "corners_away_over_" -> Over(stats.away_corners, l)
         [] t = "corners_away_under_" -> Under(stats.away_corners, l)
         [] t = "cards_home_over_" -> Over(stats.home_yellow, l)
         [] t = "cards_home_under_" -> Under(stats.home_yellow, l)
         [] t = "cards_away_over_" -> Over(stats.away_yellow, l)
         [] t = "cards_away_under_" -> Under(stats.away_yellow, l)
         [] OTHER -> "lost"

\* total == line and line == int(line): push, else the strict comparison
PushOver(stat, line) ==
    IF line = BadLine THEN Raise
    ELSE IF stat * 10 = line THEN "push" ELSE Over(stat, line)

PushUnder(stat, line) ==
    IF line = BadLine THEN Raise
    ELSE IF stat * 10 = line THEN "push" ELSE Under(stat, line)

Handicap(diff10) == IF diff10 = 0 THEN "push" ELSE Bool(diff10 > 0)

\* api.settle_bet_by_type: "won" (True), "lost" (False), "push" or Raise.
\* The LIVE_ prefix is not stripped, so a live key matches no branch.
settle_bet_by_type(key, stats) ==
    LET t == key.tag
        l == key.line
    IN IF key.live THEN "lost"
       ELSE CASE t \in {"home", "draw", "away"} -> Bool(t = stats.outcome)
         [] t = "score_" -> Bool(l = ScoreLine(stats.home_score, stats.away_score))
         [] t = "total_over_" -> PushOver(stats.total_goals, l)
         [] t = "total_under_" -> PushUnder(stats.total_goals, l)
         [] t = "btts_yes" -> Bool(stats.both_scored)
         [] t = "btts_no" -> Bool(~stats.both_scored)
         [] t = "dc_1x" -> Bool(stats.outcome \in {"home", "draw"})
         [] t = "dc_x2" -> Bool(stats.outcome \in {"draw", "away"})
         [] t = "dc_12" -> Bool(stats.outcome \in {"home", "away"})
         [] t = "dnb_home" -> IF stats.outcome = "draw" THEN "push"
                              ELSE Bool(stats.outcome = "home")
         [] t = "dnb_away" -> IF stats.outcome = "draw" THEN "push"
                              ELSE Bool(stats.outcome = "away")
         [] t = "corners_over_" -> PushOver(stats.total_corners, l)
         [] t = "corners_under_" -> PushUnder(stats.total_corners, l)
         [] t = "home_total_over_" -> PushOver(stats.home_score, l)
         [] t = "home_total_under_" -> PushUnder(stats.home_score, l)
         [] t = "away_total_over_" -> PushOver(stats.away_score, l)
         [] t = "away_total_under_" -> PushUnder(stats.away_score, l)
         [] t = "handicap_home_" ->
                IF l = BadLine THEN Raise
                ELSE Handicap((stats.home_score - stats.away_score) * 10 + l)
         [] t = "handicap_away_" ->
                IF l = BadLine THEN Raise
                ELSE Handicap((stats.away_score - stats.home_score) * 10 + l)
         [] t = "first_goal_home" -> Bool(stats.first_goal = "home")
         [] t = "first_goal_away" -> Bool(stats.first_goal = "away")
         [] t = "first_goal_none" -> Bool(stats.total_goals = 0)
         [] OTHER -> "lost"

\* api.get_match_statistics never sets first_goal
ApiStats(s) == [s EXCEPT !.first_goal = ""]

\* -------------------------------------------------------------- settlement
\* mutant: the status filter is dropped
PendingSel_AnyStatus(d, m, id) == d.bets[id].match = m

\* SELECT ... FROM bets WHERE match_id = ? AND status = 'pending'
PendingSel(d, m, id) == d.bets[id].match = m /\ d.bets[id].status = "pending"

PendingBets(d, m) ==
    LET ids == [i \in 1..Len(d.bets) |-> i]
        Sel(i) == PendingSel(d, m, i)
    IN SelectSeq(ids, Sel)

\* SELECT ... FROM predictions WHERE match_id = ? AND status = 'pending'
PendingPreds(d, m) ==
    LET ids == [i \in 1..Len(d.predictions) |-> i]
        Sel(i) == d.predictions[i].match = m /\ d.predictions[i].status = "pending"
    IN SelectSeq(ids, Sel)

Acc(d) == [db |-> d, raised |-> FALSE, bets_settled |-> 0, predictions_settled |-> 0]

\* bot.settle_all_bets, the won branch paying at the feed's present price
BotWon_CurrentOdds(d, id) ==
    LET bet == d.bets[id]
        winnings == IntMul(bet.amount, EndpointOdds(bet.key, RefreshedSnap))
        balance_before == d.balance[bet.user]
        balance_after == balance_before + winnings
        d1 == SetBetStatus(d, id, "won")
        d2 == SetBalance(d1, bet.user, balance_after)
    IN InsertTx(d2, Tx(bet.user, "bet_win", winnings, balance_before, balance_after, id))

\* bot.settle_all_bets, the statements of the won branch
BotWon(d, id) ==
    LET bet == d.bets[id]
        winnings == IntMul(bet.amount, bet.odds)
        balance_before == d.balance[bet.user]
        balance_after == balance_before + winnings
        d1 == SetBetStatus(d, id, "won")
        d2 == SetBalance(d1, bet.user, balance_after)
    IN InsertTx(d2, Tx(bet.user, "bet_win", winnings, balance_before, balance_after, id))

\* bot.settle_all_bets, the statements of the lost branch
BotLost(d, id) ==
    LET bet == d.bets[id]
        bal == d.balance[bet.user]
        d1 == SetBetStatus(d, id, "lost")
    IN InsertTx(d1, Tx(bet.user, "bet_lose", 0, bal, bal, id))

\* bot.settle_all_bets, one iteration of the loop over bets
BotBet(acc, id, stats) ==
    LET won == check_bet_won(acc.db.bets[id].key, stats)
    IN IF won = Raise THEN [acc EXCEPT !.raised = TRUE]
       ELSE IF won = None THEN acc
       ELSE [acc EXCEPT !.db = IF won = "won" THEN BotWon(@, id) ELSE BotLost(@, id),
                        !.bets_settled = @ + 1]

\* bot.settle_all_bets, one iteration of the loop over predictions
BotPred(acc, id, stats) ==
    LET d == acc.db
        pred == d.predictions[id]
        won == pred.prediction = stats.outcome
        delta == IF won THEN 5 ELSE -10
        balance_before == d.balance[pred.user]
        balance_after == balance_before + delta
        d1 == SetPredStatus(d, id, IF won THEN "correct" ELSE "incorrect")
        d2 == SetBalance(d1, pred.user, balance_after)
        d3 == InsertTx(d2, Tx(pred.user, IF won THEN "prediction_win" ELSE "prediction_lose",
                              delta, balance_before, balance_after, id))
    IN [acc EXCEPT !.db = d3, !.predictions_settled = @ + 1]

\* api.settle_all_bets_advanced, one iteration of the loop over bets
AdvBet(acc, id, stats) ==
    LET d == acc.db
        bet == d.bets[id]
        outcome == settle_bet_by_type(bet.key, stats)
    IN IF outcome = Raise THEN [acc EXCEPT !.raised = TRUE]
       ELSE [acc EXCEPT
               !.db = IF outcome = "push"
                      THEN AddBalance(SetBetStatus(d, id, "returned"), bet.user, bet.amount)
                      ELSE IF outcome = "won"
                      THEN AddBalance(SetBetStatus(d, id, "won"), bet.user,
                                      IntMul(bet.amount, bet.odds))
                      ELSE SetBetStatus(d, id, "lost"),
               !.bets_settled = @ + 1]

\* api.settle_all_bets_advanced, one iteration of the loop over predictions
AdvPred(acc, id, stats) ==
    LET d == acc.db
        pred == d.predictions[id]
        won == pred.prediction = stats.outcome
    IN [acc EXCEPT
          !.db = IF won
                 THEN AddBalance(SetPredStatus(d, id, "correct"), pred.user, 10)
                 ELSE SetPredStatus(d, id, "incorrect"),
          !.predictions_settled = @ + 1]

\* database.settle_bet
settle_bet(acc, id, result, exact_score) ==
    LET d == acc.db
        bet == d.bets[id]
        is_won == IF bet.key.tag = "score_"
                  THEN ~bet.key.live /\ bet.key.line = exact_score
                  ELSE ~bet.key.live /\ bet.key.tag = result
    IN IF bet.status # "pending" THEN acc
       ELSE [acc EXCEPT
               !.db = IF is_won
                      THEN SetBetStatus(
                             update_user_balance(d, bet.user, bet.potential_win,
                                                 "bet_win", id, FALSE).db,
                             id, "won")
                      ELSE SetBetStatus(d, id, "lost"),
               !.bets_settled = @ + 1]

\* database.settle_prediction
settle_prediction(acc, id, actual_result) ==
    LET d == acc.db
        pred == d.predictions[id]
        is_correct == pred.prediction = actual_result
    IN IF pred.status # "pending" THEN acc
       ELSE [acc EXCEPT
               !.db = IF is_correct
                      THEN SetPredStatus(
                             update_user_balance(d, pred.user, 5, "prediction_win",
                                                 id, FALSE).db,
                             id, "correct")
                      ELSE SetPredStatus(
                             update_user_balance(d, pred.user, -10, "prediction_loss",
                                                 id, FALSE).db,
                             id, "incorrect"),
               !.predictions_settled = @ + 1]

RECURSIVE BotBets(_, _, _)
BotBets(acc, q, stats) ==
    IF q = <<>> \/ acc.raised THEN acc
    ELSE BotBets(BotBet(acc, Head(q), stats), Tail(q), stats)

RECURSIVE BotPreds(_, _, _)
BotPreds(acc, q, stats) ==
    IF q = <<>> THEN acc
    ELSE BotPreds(BotPred(acc, Head(q), stats), Tail(q), stats)

RECURSIVE AdvBets(_, _, _)
AdvBets(acc, q, stats) ==
    IF q = <<>> \/ acc.raised THEN acc
    ELSE AdvBets(AdvBet(acc, Head(q), stats), Tail(q), stats)

RECURSIVE AdvPreds(_, _, _)
AdvPreds(acc, q, stats) ==
    IF q = <<>> THEN acc
    ELSE AdvPreds(AdvPred(acc, Head(q), stats), Tail(q), stats)

RECURSIVE DbBets(_, _, _, _)
DbBets(acc, q, result, exact_score) ==
    IF q = <<>> THEN acc
    ELSE DbBets(settle_bet(acc, Head(q), result, exact_score), Tail(q), result, exact_score)

RECURSIVE DbPreds(_, _, _)
DbPreds(acc, q, result) ==
    IF q = <<>> THEN acc
    ELSE DbPreds(settle_prediction(acc, Head(q), result), Tail(q), result)

\* bot.settle_all_bets
settle_all_bets(d, m, stats) ==
    LET a1 == BotBets(Acc(d), PendingBets(d, m), stats)
    IN IF a1.raised THEN a1
       ELSE BotPreds(a1, PendingPreds(a1.db, m), stats)

\* api.settle_all_bets_advanced
settle_all_bets_advanced(d, m, stats) ==
    LET a1 == AdvBets(Acc(d), PendingBets(d, m), stats)
    IN IF a1.raised THEN a1
       ELSE AdvPreds(a1, PendingPreds(a1.db, m), stats)

\* database.settle_all_for_match
settle_all_for_match(d, m, result, exact_score) ==
    LET a1 == DbBets(Acc(d), PendingBets(d, m), result, exact_score)
    IN DbPreds(a1, PendingPreds(a1.db, m), result)

\* bot.settle_cmd / bot.auto_settle calling settle_all_bets for one match
BotSettle(m, s) ==
    Commit(settle_all_bets(DB, m, s).db)

\* api.check_and_settle / api.admin_settle_manual for one match
AdvSettle(m, s) ==
    Commit(settle_all_bets_advanced(DB, m, ApiStats(s)).db)

\* api.auto_settle_task for one match
DbSettle(m, s) ==
    Commit(settle_all_for_match(DB, m, s.outcome,
                                ScoreLine(s.home_score, s.away_score)).db)

\* ------------------------------------------------------------- predictions
\* database.make_prediction
MakePrediction(u, m, p) ==
    /\ Len(predictions) < MaxPreds
    /\ IF \E i \in DOMAIN predictions :
             predictions[i].user = u /\ predictions[i].match = m
       THEN /\ UNCHANGED vars
       ELSE /\ predictions' = Append(predictions,
                                      [user |-> u, match |-> m, prediction |-> p,
                                       status |-> "pending"])
            /\ UNCHANGED <<balance, wager_remaining, referred_by, bets, transactions, botRun, apiRun, marks, feed>>

\* ---------------------------------------------------------------- sell-back
\* database.sell_bet
sell_bet(d, id, u, sell_price) ==
    IF ~(id \in DOMAIN d.bets /\ d.bets[id].user = u /\ d.bets[id].status = "pending")
    THEN [ok |-> FALSE, db |-> d]
    ELSE [ok |-> TRUE,
          db |-> InsertTx(AddBalance(SetBetStatus(d, id, "sold"), u, sell_price),
                          Tx(u, "bet_sell", sell_price, NULL, NULL, id))]

\* amount // 2 without the floor of 1
SellPrice_NoMin(amount) == amount \div 2

\* max(1, amount // 2)
SellPrice(amount) == IF amount \div 2 > 1 THEN amount \div 2 ELSE 1

\* api.sell_bet_endpoint without its check of the time to kick-off
sell_bet_endpoint_no_cutoff(d, u, id, late) ==
    LET found == id \in DOMAIN d.bets /\ d.bets[id].user = u
                 /\ d.bets[id].status = "pending"
    IN IF ~found \/ d.bets[id].key.live
       THEN [ok |-> FALSE, db |-> d]
       ELSE sell_bet(d, id, u, SellPrice(d.bets[id].amount))

\* api.sell_bet_endpoint: the response (ok) and the database it leaves; the
\* match_date of a live wager does not parse, which rejects the request
sell_bet_endpoint(d, u, id, late) ==
    LET found == id \in DOMAIN d.bets /\ d.bets[id].user = u
                 /\ d.bets[id].status = "pending"
    IN IF ~found \/ late \/ d.bets[id].key.live
       THEN [ok |-> FALSE, db |-> d]
       ELSE sell_bet(d, id, u, SellPrice(d.bets[id].amount))

SellBet(u, id, late) ==
    Commit(sell_bet_endpoint(DB, u, id, late).db)

\* ------------------------------------------------------------------ repair
\* bot.fixbets_cmd with two arguments, as a function of the database
fixbets_cmd(d, old_id, new_id) ==
    LET cnt == Len(PendingBets(d, old_id))
        Move(row) == IF row.match = old_id /\ row.status = "pending"
                     THEN [row EXCEPT !.match = new_id] ELSE row
    IN IF cnt > 0
       THEN [d EXCEPT !.bets = [i \in DOMAIN d.bets |-> Move(d.bets[i])],
                      !.predictions = [i \in DOMAIN d.predictions |->
                                          Move(d.predictions[i])]]
       ELSE d

\* bot.fixbets_cmd with two arguments
FixBets(old_id, new_id) ==
    /\ Write(fixbets_cmd(DB, old_id, new_id))
    /\ UNCHANGED <<botRun, apiRun, marks, feed>>

Next ==
    \/ Deposit(1)
    \/ \E rq \in PlaceRequests, m \in PlaceMatches, snap \in Snapshots, late \in BOOLEAN :
          PlaceBet(rq.user, m, rq.key, rq.amount, snap, late)
    \/ \E m \in PlaceMatches, p \in PredChoices : MakePrediction(2, m, p)
    \/ \E u \in Users, id \in 1..MaxBets, late \in BOOLEAN : SellBet(u, id, late)
    \/ \E m \in Matches, s \in StatsSet : BotSettle(m, s)
    \/ \E m \in Matches, s \in StatsSet : AdvSettle(m, s)
    \/ \E m \in Matches, s \in StatsSet : DbSettle(m, s)
    \/ FixBets("m1", "m2")

Spec == Init /\ [][Next]_vars

\* ------------------------------------------------- interleaved settlement
\* The bot and the API are two processes on one SQLite file, and every
\* _execute() is a connection of its own that commits on return: a step
\* below is one SQL statement of bot.settle_all_bets or of
\* api.settle_all_bets_advanced, together with the Python around it.
\* Placements and predictions are taken while neither call is in progress.

Running(run, pc) == run.pc = pc

\* bot: SELECT ... FROM bets WHERE match_id = ? AND status = 'pending'
BotSelectBets(m, s) ==
    /\ Running(botRun, "idle")
    /\ botRun' = [pc |-> "bets", m |-> m, stats |-> s,
                  queue |-> PendingBets(DB, m), bal |-> 0]
    /\ UNCHANGED <<dbvars, apiRun, marks, feed>>

\* bot: check_bet_won, then SELECT balance FROM users for the next bet
BotReadBalance ==
    /\ Running(botRun, "bets")
    /\ botRun.queue # <<>>
    /\ LET id == Head(botRun.queue)
           won == check_bet_won(bets[id].key, botRun.stats)
       IN botRun' = IF won = Raise THEN Idle
                    ELSE IF won = None THEN [botRun EXCEPT !.queue = Tail(@)]
                    ELSE [botRun EXCEPT !.pc = "bet_status",
                                        !.bal = balance[bets[id].user]]
    /\ UNCHANGED <<dbvars, apiRun, marks, feed>>

\* bot: UPDATE bets SET status = 'won' | 'lost' WHERE bet_id = ?
BotSetStatus ==
    /\ Running(botRun, "bet_status")
    /\ LET id == Head(botRun.queue)
           won == check_bet_won(bets[id].key, botRun.stats)
       IN /\ Write(SetBetStatus(DB, id, won))
          /\ botRun' = [botRun EXCEPT !.pc = IF won = "won" THEN "bet_balance" ELSE "bet_tx"]
    /\ UNCHANGED <<apiRun, marks, feed>>

\* bot: UPDATE users SET balance = ? with the balance read before
BotSetBalance ==
    /\ Running(botRun, "bet_balance")
    /\ LET id == Head(botRun.queue)
           winnings == IntMul(bets[id].amount, bets[id].odds)
       IN Write(SetBalance(DB, bets[id].user, botRun.bal + winnings))
    /\ botRun' = [botRun EXCEPT !.pc = "bet_tx"]
    /\ UNCHANGED <<apiRun, marks, feed>>

\* bot: INSERT INTO transactions ('bet_win' | 'bet_lose')
BotInsertTx ==
    /\ Running(botRun, "bet_tx")
    /\ LET id == Head(botRun.queue)
           u == bets[id].user
           won == check_bet_won(bets[id].key, botRun.stats) = "won"
           winnings == IntMul(bets[id].amount, bets[id].odds)
       IN Write(InsertTx(DB, IF won
                              THEN Tx(u, "bet_win", winnings, botRun.bal,
                                      botRun.bal + winnings, id)
                              ELSE Tx(u, "bet_lose", 0, botRun.bal, botRun.bal, id)))
    /\ botRun' = [botRun EXCEPT !.pc = "bets", !.queue = Tail(@)]
    /\ UNCHANGED <<apiRun, marks, feed>>

\* bot: SELECT ... FROM predictions WHERE match_id = ? AND status = 'pending'
BotSelectPreds ==
    /\ Running(botRun, "bets")
    /\ botRun.queue = <<>>
    /\ botRun' = [botRun EXCEPT !.pc = "preds", !.queue = PendingPreds(DB, botRun.m)]
    /\ UNCHANGED <<dbvars, apiRun, marks, feed>>

\* bot: SELECT balance FROM users for the next prediction
BotPredReadBalance ==
    /\ Running(botRun, "preds")
    /\ botRun.queue # <<>>
    /\ botRun' = [botRun EXCEPT !.pc = "pred_status",
                                !.bal = balance[predictions[Head(botRun.queue)].user]]
    /\ UNCHANGED <<dbvars, apiRun, marks, feed>>

BotPredWon == predictions[Head(botRun.queue)].prediction = botRun.stats.outcome

\* bot: UPDATE predictions SET status = 'correct' | 'incorrect'
BotPredSetStatus ==
    /\ Running(botRun, "pred_status")
    /\ Write(SetPredStatus(DB, Head(botRun.queue),
                            IF BotPredWon THEN "correct" ELSE "incorrect"))
    /\ botRun' = [botRun EXCEPT !.pc = "pred_balance"]
    /\ UNCHANGED <<apiRun, marks, feed>>

\* bot: UPDATE users SET balance = ? (+5 or -10 on the balance read before)
BotPredSetBalance ==
    /\ Running(botRun, "pred_balance")
    /\ Write(SetBalance(DB, predictions[Head(botRun.queue)].user,
                         botRun.bal + (IF BotPredWon THEN 5 ELSE -10)))
    /\ botRun' = [botRun EXCEPT !.pc = "pred_tx"]
    /\ UNCHANGED <<apiRun, marks, feed>>

\* bot: INSERT INTO transactions ('prediction_win' | 'prediction_lose')
BotPredInsertTx ==
    /\ Running(botRun, "pred_tx")
    /\ LET id == Head(botRun.queue)
           delta == IF BotPredWon THEN 5 ELSE -10
       IN Write(InsertTx(DB, Tx(predictions[id].user,
                                 IF BotPredWon THEN "prediction_win" ELSE "prediction_lose",
                                 delta, botRun.bal, botRun.bal + delta, id)))
    /\ botRun' = [botRun EXCEPT !.pc = "preds", !.queue = Tail(@)]
    /\ UNCHANGED <<apiRun, marks, feed>>

\* bot: return result
BotReturn ==
    /\ Running(botRun, "preds")
    /\ botRun.queue = <<>>
    /\ botRun' = Idle
    /\ UNCHANGED <<dbvars, apiRun, marks, feed>>

\* API: SELECT ... FROM bets WHERE match_id = ? AND status = 'pending'
AdvSelectBets(m, s) ==
    /\ Running(apiRun, "idle")
    /\ apiRun' = [pc |-> "bets", m |-> m, stats |-> ApiStats(s),
                  queue |-> PendingBets(DB, m), bal |-> 0]
    /\ UNCHANGED <<dbvars, botRun, marks, feed>>

\* API: settle_bet_by_type, then UPDATE bets SET status = ? WHERE bet_id = ?
AdvSetStatus ==
    /\ Running(apiRun, "bets")
    /\ apiRun.queue # <<>>
    /\ LET id == Head(apiRun.queue)
           outcome == settle_bet_by_type(bets[id].key, apiRun.stats)
       IN IF outcome = Raise
          THEN apiRun' = Idle /\ UNCHANGED <<dbvars, botRun, marks, feed>>
          ELSE /\ Write(SetBetStatus(DB, id, IF outcome = "push" THEN "returned"
                                                ELSE outcome))
               /\ apiRun' = IF outcome = "lost"
                            THEN [apiRun EXCEPT !.queue = Tail(@)]
                            ELSE [apiRun EXCEPT !.pc = "bet_balance"]
               /\ UNCHANGED <<botRun, marks, feed>>

\* API: UPDATE users SET balance = balance + ? (stake or winnings)
AdvAddBalance ==
    /\ Running(apiRun, "bet_balance")
    /\ LET id == Head(apiRun.queue)
           outcome == settle_bet_by_type(bets[id].key, apiRun.stats)
       IN Write(AddBalance(DB, bets[id].user,
                            IF outcome = "push" THEN bets[id].amount
                            ELSE IntMul(bets[id].amount, bets[id].odds)))
    /\ apiRun' = [apiRun EXCEPT !.pc = "bets", !.queue = Tail(@)]
    /\ UNCHANGED <<botRun, marks, feed>>

\* API: SELECT ... FROM predictions WHERE match_id = ? AND status = 'pending'
AdvSelectPreds ==
    /\ Running(apiRun, "bets")
    /\ apiRun.queue = <<>>
    /\ apiRun' = [apiRun EXCEPT !.pc = "preds", !.queue = PendingPreds(DB, apiRun.m)]
    /\ UNCHANGED <<dbvars, botRun, marks, feed>>

\* API: UPDATE predictions SET status = 'correct' | 'incorrect'
AdvPredSetStatus ==
    /\ Running(apiRun, "preds")
    /\ apiRun.queue # <<>>
    /\ LET id == Head(apiRun.queue)
           won == predictions[id].prediction = apiRun.stats.outcome
       IN /\ Write(SetPredStatus(DB, id, IF won THEN "correct" ELSE "incorrect"))
          /\ apiRun' = IF won THEN [apiRun EXCEPT !.pc = "pred_balance"]
                       ELSE [apiRun EXCEPT !.queue = Tail(@)]
    /\ UNCHANGED <<botRun, marks, feed>>

\* API: UPDATE users SET balance = balance + 10
AdvPredAddBalance ==
    /\ Running(apiRun, "pred_balance")
    /\ Write(AddBalance(DB, predictions[Head(apiRun.queue)].user, 10))
    /\ apiRun' = [apiRun EXCEPT !.pc = "preds", !.queue = Tail(@)]
    /\ UNCHANGED <<botRun, marks, feed>>

\* API: return result
AdvReturn ==
    /\ Running(apiRun, "preds")
    /\ apiRun.queue = <<>>
    /\ apiRun' = Idle
    /\ UNCHANGED <<dbvars, botRun, marks, feed>>

AtRest == Running(botRun, "idle") /\ Running(apiRun, "idle")

ConcRequests == {Req(1, K_home, 20), Req(1, K_total_over_2, 20), Req(2, K_home, 20)}

ConcNext ==
    \/ \E rq \in ConcRequests, m \in PlaceMatches :
          AtRest /\ PlaceBet(rq.user, m, rq.key, rq.amount, OpenSnap, FALSE)
    \/ \E m \in PlaceMatches, p \in PredChoices : AtRest /\ MakePrediction(2, m, p)
    \/ \E m \in PlaceMatches, s \in StatsSet : BotSelectBets(m, s)
    \/ BotReadBalance
    \/ BotSetStatus
    \/ BotSetBalance
    \/ BotInsertTx
    \/ BotSelectPreds
    \/ BotPredReadBalance
    \/ BotPredSetStatus
    \/ BotPredSetBalance
    \/ BotPredInsertTx
    \/ BotReturn
    \/ \E m \in PlaceMatches, s \in StatsSet : AdvSelectBets(m, s)
    \/ AdvSetStatus
    \/ AdvAddBalance
    \/ AdvSelectPreds
    \/ AdvPredSetStatus
    \/ AdvPredAddBalance
    \/ AdvReturn

SpecConc == Init /\ [][ConcNext]_vars

\* ------------------------------------------------ placement racing the bot
\* api.place_bet_endpoint runs in the API process while bot.settle_all_bets
\* runs in the bot process. The endpoint reads the user (get_current_user),
\* database.place_bet reads the user again (get_user) and then writes the
\* balance it computed from that read in one transaction.

RaceRequests == {Req(1, K_home, 20), Req(1, K_total_over_2, 20)}

\* place_bet_endpoint up to the call of place_bet: the request's checks
RacePlaceCheck(rq, m) ==
    /\ Running(apiRun, "idle")
    /\ Len(bets) < MaxBets
    /\ rq.amount > 0
    /\ rq.amount <= balance[rq.user]
    /\ EndpointOdds(rq.key, OpenSnap) # NoOdds
    /\ apiRun' = [pc |-> "place_read", m |-> m, rq |-> rq,
                  odds |-> EndpointOdds(rq.key, OpenSnap), bal |-> 0, wager |-> 0]
    /\ UNCHANGED <<dbvars, botRun, marks, feed>>

\* place_bet: user = get_user(user_id); None when balance < amount
RacePlaceRead ==
    /\ Running(apiRun, "place_read")
    /\ apiRun' = IF balance[apiRun.rq.user] < apiRun.rq.amount
                 THEN Idle
                 ELSE [apiRun EXCEPT !.pc = "place_write",
                                     !.bal = balance[apiRun.rq.user],
                                     !.wager = wager_remaining[apiRun.rq.user]]
    /\ UNCHANGED <<dbvars, botRun, marks, feed>>

\* place_bet: UPDATE users, INSERT INTO bets, INSERT INTO transactions in one
\* transaction, with the balance and playthrough read before
RacePlaceWrite ==
    /\ Running(apiRun, "place_write")
    /\ LET rq == apiRun.rq
           u == rq.user
           balance_after == apiRun.bal - rq.amount
           wager_after == IF apiRun.wager - rq.amount > 0
                          THEN apiRun.wager - rq.amount ELSE 0
           bet_id == Len(bets) + 1
           row == [user |-> u, match |-> apiRun.m, key |-> rq.key,
                   amount |-> rq.amount, odds |-> apiRun.odds,
                   potential_win |-> IntMul(rq.amount, apiRun.odds),
                   status |-> "pending"]
       IN Write(InsertTx([DB EXCEPT !.balance[u] = balance_after,
                                    !.wager_remaining[u] = wager_after,
                                    !.bets = Append(@, row)],
                         Tx(u, "bet", -rq.amount, apiRun.bal, balance_after, bet_id)))
    /\ apiRun' = Idle
    /\ UNCHANGED <<botRun, marks, feed>>

RaceNext ==
    \/ \E rq \in ConcRequests, m \in PlaceMatches :
          AtRest /\ PlaceBet(rq.user, m, rq.key, rq.amount, OpenSnap, FALSE)
    \/ \E m \in PlaceMatches, p \in PredChoices : AtRest /\ MakePrediction(2, m, p)
    \/ \E rq \in RaceRequests, m \in PlaceMatches : RacePlaceCheck(rq, m)
    \/ RacePlaceRead
    \/ RacePlaceWrite
    \/ \E m \in PlaceMatches, s \in StatsSet : BotSelectBets(m, s)
    \/ BotReadBalance
    \/ BotSetStatus
    \/ BotSetBalance
    \/ BotInsertTx
    \/ BotSelectPreds
    \/ BotPredReadBalance
    \/ BotPredSetStatus
    \/ BotPredSetBalance
    \/ BotPredInsertTx
    \/ BotReturn

SpecRace == Init /\ [][RaceNext]_vars

\* ------------------------------------------------- a pass that is cut short
\* Every statement of bot.settle_all_bets commits on its own (_execute), so
\* a process that is killed, or a statement that raises (sqlite3 "database
\* is locked"), ends the call with the earlier statements already durable.
BotCrash ==
    /\ ~Running(botRun, "idle")
    /\ botRun' = Idle
    /\ UNCHANGED <<dbvars, apiRun, marks, feed>>

CrashNext ==
    \/ \E rq \in ConcRequests, m \in PlaceMatches :
          AtRest /\ PlaceBet(rq.user, m, rq.key, rq.amount, OpenSnap, FALSE)
    \/ \E m \in PlaceMatches, p \in PredChoices : AtRest /\ MakePrediction(2, m, p)
    \/ \E m \in PlaceMatches, s \in StatsSet : BotSelectBets(m, s)
    \/ BotReadBalance
    \/ BotSetStatus
    \/ BotSetBalance
    \/ BotInsertTx
    \/ BotSelectPreds
    \/ BotPredReadBalance
    \/ BotPredSetStatus
    \/ BotPredSetBalance
    \/ BotPredInsertTx
    \/ BotReturn
    \/ BotCrash

SpecCrash == Init /\ [][CrashNext]_vars

\* ------------------------------------------------------ resolver inputs
\* 1:1, 4 corners and 2 yellow cards, all of the home side; both sides
\* scored and the first goal side is not derivable
S11 == MkStats(1, 1, 4, 2, "")
\* 3:4, 9 corners and 3 yellow cards; first goal by the away side
S34 == MkStats(3, 4, 9, 3, "away")

ResolveStats == {S11, S34}

OverTags ==
    {"total_over_", "home_over_", "away_over_", "corners_over_",
     "corners_home_over_", "corners_away_over_", "cards_over_",
     "cards_home_over_", "cards_away_over_"}

UnderTags ==
    {"total_under_", "home_under_", "away_under_", "corners_under_",
     "corners_home_under_", "corners_away_under_", "cards_under_",
     "cards_home_under_", "cards_away_under_"}

\* the statistic an over/under tag is compared with
FamilyStat(t, s) ==
    CASE t \in {"total_over_", "total_under_"} -> s.total_goals
      [] t \in {"home_over_", "home_under_"} -> s.home_score
      [] t \in {"away_over_", "away_under_"} -> s.away_score
      [] t \in {"corners_over_", "corners_under_"} -> s.total_corners
      [] t \in {"corners_home_over_", "corners_home_under_"} -> s.home_corners
      [] t \in {"corners_away_over_", "corners_away_under_"} -> s.away_corners
      [] t \in {"cards_over_", "cards_under_"} -> s.total_yellow
      [] t \in {"cards_home_over_", "cards_home_under_"} -> s.home_yellow
      [] t \in {"cards_away_over_", "cards_away_under_"} -> s.away_yellow

\* every family at the whole-number line S11 lands on, three of them at the
\* half-point line above it
OverUnderKeys ==
    {Key(t, FamilyStat(t, S11) * 10) : t \in OverTags \cup UnderTags}
    \cup {Key(t, FamilyStat(t, S11) * 10 + 5) :
            t \in {"total_over_", "total_under_", "corners_over_", "corners_under_",
                   "cards_home_over_", "cards_home_under_"}}

K_handicap_home_1 == Key("handicap_home_", 10)
K_handicap_away_m1 == Key("handicap_away_", -10)
K_dnb_home == Key("dnb_home", 0)
K_dnb_away == Key("dnb_away", 0)
K_first_goal_none == Key("first_goal_none", 0)
\* two keys no market of the feed produces
K_unknown == Key("unknown", 0)
K_first_goal_x == Key("first_goal_x", 0)

ResolveKeys ==
    OverUnderKeys \cup
    {K_home, K_handicap_home_1, K_handicap_away_m1, K_dnb_home, K_dnb_away,
     K_first_goal_home, K_first_goal_none}

\* what a client of /api/bet/live sends as bet_type
LiveRequestKeys == {K_home, K_unknown, K_first_goal_x}

ResolveSnap ==
    [bets_suspended |-> FALSE, live_odds |-> [k \in ResolveKeys |-> 200]]

ResolveNext ==
    \/ \E key \in ResolveKeys : PlaceBet(1, "m1", key, 20, ResolveSnap, FALSE)
    \/ \E key \in LiveRequestKeys, is_live \in BOOLEAN :
          PlaceLiveBet(1, "m1", key, 20, 200, ResolveSnap, is_live)
    \/ \E s \in ResolveStats : BotSettle("m1", s)
    \/ \E s \in ResolveStats : AdvSettle("m1", s)
    \/ \E s \in ResolveStats : DbSettle("m1", s)

SpecResolve == Init /\ [][ResolveNext]_vars

\* ------------------------------------------------------------ schedulers
\* bot._match_data_complete
match_data_complete(s) ==
    /\ ~(s.total_goals # s.home_score + s.away_score /\ s.home_score + s.away_score > 0)
    /\ ~(s.total_goals > 0 /\ s.total_corners = 0)
    /\ ~(s.total_corners < 2)

Pass(d, settled) == [db |-> d, settled |-> settled]

\* bot.auto_settle, the loop body for one finished match; an exception out
\* of settle_all_bets ends the job before the match is marked
auto_settle(d, settled, m, s) ==
    IF m \in settled THEN Pass(d, settled)
    ELSE IF Len(PendingBets(d, m)) = 0 THEN Pass(d, settled \cup {m})
    ELSE IF ~match_data_complete(s) THEN Pass(d, settled)
    ELSE LET st == settle_all_bets(d, m, s)
         IN IF ~st.raised /\ (st.bets_settled > 0 \/ st.predictions_settled > 0)
            THEN Pass(st.db, settled \cup {m})
            ELSE Pass(st.db, settled)

\* api.check_and_settle, the loop body for one recent match
check_and_settle(d, settled, m, s) ==
    IF m \in settled THEN Pass(d, settled)
    ELSE IF s.total_goals = 0 /\ s.home_score = 0 THEN Pass(d, settled)
    ELSE LET st == settle_all_bets_advanced(d, m, ApiStats(s))
         IN IF st.raised THEN Pass(st.db, settled)
            ELSE Pass(st.db, settled \cup {m})

\* api.auto_settle_task, the loop body for one recent match
auto_settle_task(d, settled, m, s) ==
    IF m \in settled THEN Pass(d, settled)
    ELSE LET st == settle_all_for_match(d, m, s.outcome,
                                        ScoreLine(s.home_score, s.away_score))
         IN IF st.bets_settled > 0 \/ st.predictions_settled > 0
            THEN Pass(st.db, settled \cup {m})
            ELSE Pass(st.db, settled)

AutoSettle(m, s) ==
    LET r == auto_settle(DB, botSettled, m, s)
    IN /\ Write(r.db)
       /\ botSettled' = r.settled
       /\ UNCHANGED <<botRun, apiRun, apiSettled, feed>>

CheckAndSettle(m, s) ==
    LET r == check_and_settle(DB, apiSettled, m, s)
    IN /\ Write(r.db)
       /\ apiSettled' = r.settled
       /\ UNCHANGED <<botRun, apiRun, botSettled, feed>>

AutoSettleTask(m, s) ==
    LET r == auto_settle_task(DB, apiSettled, m, s)
    IN /\ Write(r.db)
       /\ apiSettled' = r.settled
       /\ UNCHANGED <<botRun, apiRun, botSettled, feed>>

\* 1:1 as the statistics source reports it over time: corners not yet
\* filled in, complete without a first goal side, complete with it
S11_incomplete == MkStats(1, 1, 0, 2, "")
S11_home == MkStats(1, 1, 4, 2, "home")

SchedStats == {S11_incomplete, S11, S11_home}

SchedKeys == {K_home, K_dnb_home, K_first_goal_home}

\* wagers and predictions are taken until the match starts, the schedulers
\* see it once it has finished
BeforeMatch ==
    /\ botSettled = {} /\ apiSettled = {}
    /\ \A id \in DOMAIN bets : bets[id].status = "pending"
    /\ \A id \in DOMAIN predictions : predictions[id].status = "pending"

SchedNext ==
    \/ \E key \in SchedKeys :
          BeforeMatch /\ PlaceBet(1, "m1", key, 20, ResolveSnap, FALSE)
    \/ \E p \in PredChoices : BeforeMatch /\ MakePrediction(2, "m1", p)
    \/ \E s \in SchedStats : AutoSettle("m1", s)
    \/ \E s \in SchedStats : CheckAndSettle("m1", s)
    \/ \E s \in SchedStats : AutoSettleTask("m1", s)

SpecSched == Init /\ [][SchedNext]_vars

\* ------------------------------------------------------- sell-back inputs
\* stakes on both sides of the floor of the sell price
SellStakes == {1, 3, 20}

SellNext ==
    \/ \E u \in Users, amount \in SellStakes :
          PlaceBet(u, "m1", K_home, amount, OpenSnap, FALSE)
    \/ \E u \in Users, id \in 1..MaxBets, late \in BOOLEAN : SellBet(u, id, late)
    \/ \E s \in StatsSet : BotSettle("m1", s)

SpecSell == Init /\ [][SellNext]_vars

\* ------------------------------------------------- every ledger operation
\* what a client of /api/bet/live sends: key, stake and the price it saw
LiveRequests ==
    {[key |-> K_home, amount |-> 20, odds |-> 150],
     [key |-> K_home, amount |-> 0, odds |-> 150],
     [key |-> K_unknown, amount |-> 20, odds |-> 300]}

OpsNext ==
    \/ Deposit(1)
    \/ \E rq \in PlaceRequests, snap \in Snapshots \cup {RefreshedSnap}, late \in BOOLEAN :
          PlaceBet(rq.user, "m1", rq.key, rq.amount, snap, late)
    \/ \E rq \in LiveRequests, snap \in Snapshots \cup {RefreshedSnap}, is_live \in BOOLEAN :
          PlaceLiveBet(1, "m1", rq.key, rq.amount, rq.odds, snap, is_live)
    \/ \E p \in PredChoices : MakePrediction(2, "m1", p)
    \/ \E u \in Users, id \in 1..MaxBets, late \in BOOLEAN : SellBet(u, id, late)
    \/ \E m \in Matches, s \in StatsSet : BotSettle(m, s)
    \/ \E m \in Matches, s \in StatsSet : AdvSettle(m, s)
    \/ \E m \in Matches, s \in StatsSet : DbSettle(m, s)
    \/ FixBets("m1", "m2")

SpecOps == Init /\ [][OpsNext]_vars

\* ------------------------------------------------- odds market normalizer
\* A raw market is [name, open, runners]; a runner is [name, line, open,
\* price]. Names are the lower-cased Russian texts of the feed written in
\* Latin letters; a runner name is its selection marker, the line that
\* follows the marker in the text is the field line (tenths; home*100+away
\* for "H:A"). price 0 stands for a price that is absent, None or 0; an
\* absent "open" is TRUE, as r.get('open', True) reads it.
Market(name, open, runners) == [name |-> name, open |-> open, runners |-> runners]

Runner(name, line, open, price) ==
    [name |-> name, line |-> line, open |-> open, price |-> price]

\* odds[key] = p
Put(odds, k, p) == [x \in DOMAIN odds \cup {k} |-> IF x = k THEN p ELSE odds[x]]

\* the guard every runner loop of the parser starts with, with every price
\* accepted that is present
RunnerOk_NoPriceGuard(r) == r.open /\ r.price # 0

\* the guard every runner loop of the parser starts with
RunnerOk(r) ==
    /\ ~(~r.open \/ r.price = 0)
    /\ ~(r.price = 0 \/ r.price <= 100 \/ r.price > 5000)

\* _ou: "Bolshe (line)" / "Menshe (line)" runners of an over/under market
RECURSIVE ou(_, _, _)
ou(odds, runners, prefix) ==
    IF runners = <<>> THEN odds
    ELSE LET r == Head(runners)
             o1 == IF ~RunnerOk(r) THEN odds
                   ELSE IF r.name = "bolshe"
                        THEN Put(odds, Key(prefix \o "_over_", r.line), r.price)
                   ELSE IF r.name = "menshe"
                        THEN Put(odds, Key(prefix \o "_under_", r.line), r.price)
                   ELSE odds
         IN ou(o1, Tail(runners), prefix)

\* _12: "1 (line)" / "2 (line)" runners of a handicap market
RECURSIVE one_two(_, _, _, _)
one_two(odds, runners, p1, p2) ==
    IF runners = <<>> THEN odds
    ELSE LET r == Head(runners)
             o1 == IF ~RunnerOk(r) THEN odds
                   ELSE IF r.name = "1"
                        THEN Put(odds, Key(p1 \o "_", r.line), r.price)
                   ELSE IF r.name = "2"
                        THEN Put(odds, Key(p2 \o "_", r.line), r.price)
                   ELSE odds
         IN one_two(o1, Tail(runners), p1, p2)

\* the runner loop of an enumerated market: names maps a runner name to the
\* key it is stored under
RECURSIVE enumerated(_, _, _)
enumerated(odds, runners, names) ==
    IF runners = <<>> THEN odds
    ELSE LET r == Head(runners)
             o1 == IF RunnerOk(r) /\ r.name \in DOMAIN names
                   THEN Put(odds, Key(names[r.name], 0), r.price)
                   ELSE odds
         IN enumerated(o1, Tail(runners), names)

\* the runner loop of the exact-score market
RECURSIVE exact_score(_, _)
exact_score(odds, runners) ==
    IF runners = <<>> THEN odds
    ELSE LET r == Head(runners)
             o1 == IF RunnerOk(r) /\ r.name = "H:A"
                   THEN Put(odds, Key("score_", r.line), r.price)
                   ELSE odds
         IN exact_score(o1, Tail(runners))

\* runner names of the enumerated markets; "X" and "Xcyr" are the Latin and
\* the Cyrillic letter
Names1x2 == [n \in {"1", "X", "Xcyr", "2"} |->
                IF n = "1" THEN "home" ELSE IF n = "2" THEN "away" ELSE "draw"]
NamesDc == [n \in {"1X", "1Xcyr", "X2", "Xcyr2", "12"} |->
                IF n \in {"1X", "1Xcyr"} THEN "dc_1x"
                ELSE IF n = "12" THEN "dc_12" ELSE "dc_x2"]
NamesBtts == [n \in {"da", "net"} |-> IF n = "da" THEN "btts_yes" ELSE "btts_no"]
NamesDnb == [n \in {"1", "2"} |-> IF n = "1" THEN "dnb_home" ELSE "dnb_away"]
NamesFirstGoal == [n \in {"1", "2", "ne budet"} |->
                IF n = "1" THEN "first_goal_home"
                ELSE IF n = "2" THEN "first_goal_away" ELSE "first_goal_none"]
NamesPenalty == [n \in {"da", "net"} |->
                IF n = "da" THEN "penalty_yes" ELSE "penalty_no"]
NamesEvenOdd == [n \in {"chet", "nechet"} |->
                IF n = "chet" THEN "total_even" ELSE "total_odd"]

\* the rule a market name selects in the if / elif chain of the main loop
Branch(mn) ==
    CASE mn = "tochnyj schet" -> "score"
      [] mn = "chet/nechet" -> "even_odd"
      [] mn \in {"1-j tajm ishod 1x2", "tochnoe kolichestvo golov"} -> "skip"
      [] mn = "ishod 1x2" -> "1x2"
      [] mn = "dvojnoj shans" -> "dc"
      [] mn = "obe zabyut" -> "btts"
      [] mn = "rezultat ne vklyuchaya nichyu" -> "dnb"
      [] mn = "pervyj gol" -> "first_goal"
      [] mn = "penalti budet" -> "penalty"
      [] mn = "uglovye fora" -> "skip"
      [] mn = "uglovye hozyaev total" -> "corners_home"
      [] mn = "uglovye gostej total" -> "corners_away"
      [] mn = "uglovye total" -> "corners"
      [] mn = "kartochki fora" -> "skip"
      [] mn = "kartochki hozyaev total" -> "cards_home"
      [] mn = "kartochki gostej total" -> "cards_away"
      [] mn = "zheltye kartochki total" -> "cards"
      [] mn = "fora" -> "handicap"
      [] mn = "total hozyaev" -> "home"
      [] mn = "total gostej" -> "away"
      [] mn \in {"total", "total golov", "total matcha"} -> "total"
      [] OTHER -> "skip"

OuBranches ==
    {"corners_home", "corners_away", "corners", "cards_home", "cards_away",
     "cards", "home", "away", "total"}

\* one iteration of the main loop of _parse_leon_markets
parse_market(acc, market) ==
    LET b == Branch(market.name)
        rs == market.runners
        o == acc.odds
        odds1 ==
            CASE b = "score" -> exact_score(o, rs)
              [] b = "even_odd" -> enumerated(o, rs, NamesEvenOdd)
              [] b = "1x2" -> enumerated(o, rs, Names1x2)
              [] b = "dc" -> enumerated(o, rs, NamesDc)
              [] b = "btts" -> enumerated(o, rs, NamesBtts)
              [] b = "dnb" -> enumerated(o, rs, NamesDnb)
              [] b = "first_goal" -> enumerated(o, rs, NamesFirstGoal)
              [] b = "penalty" -> enumerated(o, rs, NamesPenalty)
              [] b \in OuBranches -> ou(o, rs, b)
              [] b = "handicap" -> one_two(o, rs, "handicap_home", "handicap_away")
              [] OTHER -> o
    IN IF ~market.open \/ b = "skip" THEN acc
       ELSE [odds |-> odds1, open_markets |-> acc.open_markets + 1]

RECURSIVE parse_markets_from(_, _)
parse_markets_from(acc, markets) ==
    IF markets = <<>> THEN acc
    ELSE parse_markets_from(parse_market(acc, Head(markets)), Tail(markets))

\* api._parse_leon_markets
parse_leon_markets(markets) == parse_markets_from(NotFetched, markets)

\* _get_leon_cached on a cache miss: the response is parsed and kept
GetLeonCached ==
    /\ leonCache' = parse_leon_markets(leonMarkets)
    /\ UNCHANGED <<dbvars, botRun, apiRun, marks, leonMarkets, liveScore, betMarkets>>

\* the raw runners and market names the feed is drawn from
RawRunners ==
    {Runner("1", 0, TRUE, 185), Runner("1", 0, TRUE, 210),
     Runner("1", 0, FALSE, 300), Runner("2", 0, TRUE, 100),
     Runner("2", 0, TRUE, 5000), Runner("2", 0, TRUE, 5001),
     Runner("X", 0, TRUE, 0),
     Runner("bolshe", 25, TRUE, 190), Runner("bolshe", 25, TRUE, 205)}

RawMarketNames == {"ishod 1x2", "total", "total golov", "fora"}

SeqsUpTo(S, n) == UNION {[1..k -> S] : k \in 0..n}

RawMarkets ==
    {Market(n, op, rs) : n \in RawMarketNames, op \in BOOLEAN,
                         rs \in SeqsUpTo(RawRunners, MaxRunners)}

RawMarketLists == SeqsUpTo(RawMarkets, MaxMarkets)

NormInit ==
    /\ balance = [u \in Users |-> WelcomeBonus]
    /\ wager_remaining = [u \in Users |-> 0]
    /\ referred_by = [u \in Users |-> IF u = 2 THEN 1 ELSE NULL]
    /\ bets = <<>>
    /\ predictions = <<>>
    /\ transactions = [u \in Users |->
                          <<Tx(u, "bonus", WelcomeBonus, 0, WelcomeBonus, NULL)>>]
    /\ botRun = Idle
    /\ apiRun = Idle
    /\ botSettled = {}
    /\ apiSettled = {}
    /\ leonMarkets \in RawMarketLists
    /\ leonCache = NotFetched
    /\ liveScore = NoScore
    /\ betMarkets = <<>>

NormNext == GetLeonCached

SpecNorm == NormInit /\ [][NormNext]_vars

\* --------------------------------------------------- market catalog builder
\* odds.get(key, 0)
Get(odds, k) == IF k \in DOMAIN odds THEN odds[k] ELSE 0

Bet(k, o) == [key |-> k, odds |-> o]

\* sorted(lines, key=float)
RECURSIVE SortedLines(_)
SortedLines(S) ==
    IF S = {} THEN <<>>
    ELSE LET m == CHOOSE x \in S : \A y \in S : x <= y
         IN <<m>> \o SortedLines(S \ {m})

NoCap == 0

\* _collect with every line kept that is not above max_line
collect_no_suppression(odds, prefix, max_line, current_value) ==
    LET over == prefix \o "_over_"
        under == prefix \o "_under_"
        lines_found ==
            {k.line : k \in {x \in DOMAIN odds :
                /\ x.tag \in {over, under}
                /\ x.line # BadLine
                /\ ~(max_line # NoCap /\ x.line > max_line)}}
        order == SortedLines(lines_found)
        F[i \in 0..Len(order)] ==
            IF i = 0 THEN <<>>
            ELSE LET l == order[i]
                     o == Get(odds, Key(over, l))
                     u == Get(odds, Key(under, l))
                 IN F[i - 1] \o
                    (IF o # 0
                     THEN <<Bet(Key(over, l), o)>> \o
                          (IF u # 0 THEN <<Bet(Key(under, l), u)>> ELSE <<>>)
                     ELSE <<>>)
    IN F[Len(order)]

\* _build_live_markets._collect; current_value is a count, lines are tenths
collect(odds, prefix, max_line, current_value) ==
    LET over == prefix \o "_over_"
        under == prefix \o "_under_"
        lines_found ==
            {k.line : k \in {x \in DOMAIN odds :
                /\ x.tag \in {over, under}
                /\ x.line # BadLine
                /\ ~(max_line # NoCap /\ x.line > max_line)
                /\ ~(current_value > 0 /\ x.line < current_value * 10)}}
        order == SortedLines(lines_found)
        F[i \in 0..Len(order)] ==
            IF i = 0 THEN <<>>
            ELSE LET l == order[i]
                     o == Get(odds, Key(over, l))
                     u == Get(odds, Key(under, l))
                 IN F[i - 1] \o
                    (IF o # 0
                     THEN <<Bet(Key(over, l), o)>> \o
                          (IF u # 0 THEN <<Bet(Key(under, l), u)>> ELSE <<>>)
                     ELSE <<>>)
    IN F[Len(order)]

\* a market of fixed options, listed when the first of them is priced
fixed_market(odds, type, tags, shown) ==
    IF shown /\ Get(odds, Key(tags[1], 0)) # 0
    THEN <<[type |-> type,
            bets |-> [i \in DOMAIN tags |-> Bet(Key(tags[i], 0), Get(odds, Key(tags[i], 0)))]]>>
    ELSE <<>>

\* a market of collected options, omitted when it has none
line_market(type, opts) == IF opts = <<>> THEN <<>> ELSE <<[type |-> type, bets |-> opts]>>

\* the handicap options, by ascending line, home before away
handicap_bets(odds) ==
    LET h_lines == {k.line : k \in {x \in DOMAIN odds :
                        x.tag \in {"handicap_home_", "handicap_away_"}}}
        order == SortedLines(h_lines)
        F[i \in 0..Len(order)] ==
            IF i = 0 THEN <<>>
            ELSE LET l == order[i]
                     o == Get(odds, Key("handicap_home_", l))
                     u == Get(odds, Key("handicap_away_", l))
                 IN F[i - 1] \o
                    (IF o # 0 THEN <<Bet(Key("handicap_home_", l), o)>> ELSE <<>>) \o
                    (IF u # 0 THEN <<Bet(Key("handicap_away_", l), u)>> ELSE <<>>)
    IN F[Len(order)]

\* the exact-score options by ascending price, at most 15; equal prices are
\* taken by ascending line here, by position in the mapping in the code
RECURSIVE score_bets(_, _, _)
score_bets(odds, keys, n) ==
    IF keys = {} \/ n = 0 THEN <<>>
    ELSE LET m == CHOOSE x \in keys : \A y \in keys :
                      odds[x] < odds[y] \/ (odds[x] = odds[y] /\ x.line <= y.line)
         IN <<Bet(m, odds[m])>> \o score_bets(odds, keys \ {m}, n - 1)

\* api._build_live_markets; names and categories of the options are left out
build_live_markets(odds, score) ==
    LET hs == IF score.ok THEN score.hs ELSE 0
        as == IF score.ok THEN score.as ELSE 0
        total_goals == hs + as
    IN fixed_market(odds, "match_result", <<"home", "draw", "away">>, TRUE)
       \o fixed_market(odds, "double_chance", <<"dc_1x", "dc_x2", "dc_12">>, TRUE)
       \o line_market("total_goals", collect(odds, "total", 105, total_goals))
       \o fixed_market(odds, "btts", <<"btts_yes", "btts_no">>, total_goals = 0)
       \o fixed_market(odds, "dnb", <<"dnb_home", "dnb_away">>, TRUE)
       \o fixed_market(odds, "first_goal",
                       <<"first_goal_home", "first_goal_none", "first_goal_away">>,
                       total_goals = 0)
       \o line_market("handicap", handicap_bets(odds))
       \o line_market("correct_score",
                      score_bets(odds, {x \in DOMAIN odds : x.tag = "score_"}, 15))
       \o fixed_market(odds, "odd_even", <<"total_even", "total_odd">>,
                       Get(odds, Key("total_odd", 0)) # 0)
       \o line_market("home_total", collect(odds, "home", 75, hs))
       \o line_market("away_total", collect(odds, "away", 75, as))
       \o line_market("total_corners", collect(odds, "corners", 200, 0))
       \o line_market("corners_home", collect(odds, "corners_home", NoCap, 0))
       \o line_market("corners_away", collect(odds, "corners_away", NoCap, 0))
       \o line_market("total_cards", collect(odds, "cards", 120, 0))
       \o line_market("cards_home", collect(odds, "cards_home", NoCap, 0))
       \o line_market("cards_away", collect(odds, "cards_away", NoCap, 0))
       \o fixed_market(odds, "penalty", <<"penalty_yes", "penalty_no">>, TRUE)

\* the live branch of the matches endpoint: the catalog of the cached
\* snapshot at the feed's score
BuildLiveMarkets ==
    /\ betMarkets' = build_live_markets(leonCache.odds, liveScore)
    /\ UNCHANGED <<dbvars, botRun, apiRun, marks, leonMarkets, leonCache, liveScore>>

\* the line keys and scores the catalog is built from
CatalogKeys ==
    {Key("total_over_", 15), Key("total_under_", 15),
     Key("total_over_", 35), Key("total_under_", 35),
     Key("total_over_", 115), Key("total_under_", 115),
     Key("home_over_", 15), Key("home_under_", 15),
     Key("away_over_", 5), Key("away_under_", 5),
     Key("corners_over_", 15), Key("corners_under_", 15),
     K_home}

CatalogPrice(k) == IF k.tag \in OverTags THEN 190 ELSE 185

CatalogSnapshots ==
    {[odds |-> [k \in ks |-> CatalogPrice(k)], open_markets |-> 1] : ks \in SUBSET CatalogKeys}

CatalogScores ==
    {NoScore, ScoreText(TRUE, 0, 0), ScoreText(TRUE, 2, 1), ScoreText(TRUE, 0, 2)}

CatalogInit ==
    /\ balance = [u \in Users |-> WelcomeBonus]
    /\ wager_remaining = [u \in Users |-> 0]
    /\ referred_by = [u \in Users |-> IF u = 2 THEN 1 ELSE NULL]
    /\ bets = <<>>
    /\ predictions = <<>>
    /\ transactions = [u \in Users |->
                          <<Tx(u, "bonus", WelcomeBonus, 0, WelcomeBonus, NULL)>>]
    /\ botRun = Idle
    /\ apiRun = Idle
    /\ botSettled = {}
    /\ apiSettled = {}
    /\ leonMarkets = <<>>
    /\ leonCache \in CatalogSnapshots
    /\ liveScore \in CatalogScores
    /\ betMarkets = <<>>

CatalogNext == BuildLiveMarkets

SpecCatalog == CatalogInit /\ [][CatalogNext]_vars

\* ------------------------------------------------ stakes near the balance
\* placements that leave less than a prediction penalty on the account
FloorRequests == {Req(2, K_total_over_2, 45), Req(2, K_home, 45), Req(1, K_home, 20)}

FloorNext ==
    \/ \E rq \in FloorRequests, late \in BOOLEAN :
          PlaceBet(rq.user, "m1", rq.key, rq.amount, OpenSnap, late)
    \/ \E p \in PredChoices : MakePrediction(2, "m1", p)
    \/ \E u \in Users, id \in 1..MaxBets, late \in BOOLEAN : SellBet(u, id, late)
    \/ \E m \in Matches, s \in StatsSet : BotSettle(m, s)
    \/ \E m \in Matches, s \in StatsSet : AdvSettle(m, s)
    \/ \E m \in Matches, s \in StatsSet : DbSettle(m, s)

SpecFloor == Init /\ [][FloorNext]_vars

\* ------------------------------------------- sell-back racing a settlement
\* database.sell_bet is one transaction of the API process; it runs between
\* any two statements of a settlement call of the bot or of the API.
SellRaceNext ==
    \/ \E rq \in ConcRequests, m \in PlaceMatches :
          AtRest /\ PlaceBet(rq.user, m, rq.key, rq.amount, OpenSnap, FALSE)
    \/ \E u \in Users, id \in 1..MaxBets : SellBet(u, id, FALSE)
    \/ \E m \in PlaceMatches, s \in StatsSet : BotSelectBets(m, s)
    \/ BotReadBalance
    \/ BotSetStatus
    \/ BotSetBalance
    \/ BotInsertTx
    \/ BotSelectPreds
    \/ BotReturn
    \/ \E m \in PlaceMatches, s \in StatsSet : AdvSelectBets(m, s)
    \/ AdvSetStatus
    \/ AdvAddBalance
    \/ AdvSelectPreds
    \/ AdvReturn

SpecSellRace == Init /\ [][SellRaceNext]_vars

\* ------------------------------------------------ every key of the feed
\* one key of every family _parse_leon_markets stores, at lines each side
\* of which some final statistics fall
CoverKeys ==
    {Key(t, 15) : t \in OverTags \cup UnderTags}
    \cup {Key(t, 0) : t \in {"home", "draw", "away", "dc_1x", "dc_x2", "dc_12",
                             "btts_yes", "btts_no", "dnb_home", "dnb_away",
                             "first_goal_home", "first_goal_away", "first_goal_none",
                             "penalty_yes", "penalty_no", "total_even", "total_odd"}}
    \cup {Key("handicap_home_", 10), Key("handicap_away_", 10),
          Key("score_", ScoreLine(1, 1))}

CoverSnap == [bets_suspended |-> FALSE, live_odds |-> [k \in CoverKeys |-> 200]]

\* 0:0 without corners or cards
S00 == MkStats(0, 0, 0, 0, "")
\* 3:4 with corners and cards on both sides and a penalty
S34_both == [S34 EXCEPT !.away_corners = 2, !.away_yellow = 2, !.has_penalty = TRUE]

CoverStats == {S00, S11, S20, S34_both}

CoverNext ==
    \/ \E key \in CoverKeys : PlaceBet(1, "m1", key, 20, CoverSnap, FALSE)
    \/ \E key \in CoverKeys : PlaceLiveBet(1, "m1", key, 20, 200, CoverSnap, TRUE)
    \/ \E s \in CoverStats : BotSettle("m1", s)
    \/ \E s \in CoverStats : AdvSettle("m1", s)
    \/ \E s \in CoverStats : DbSettle("m1", s)

SpecCover == Init /\ [][CoverNext]_vars

\* ------------------------------------------- a wager with an unreadable line
\* a key whose line float() cannot read ("total_over_2,5"), as live placement
\* stores whatever bet_type the request carries
K_total_over_bad == Key("total_over_", BadLine)

BadNext ==
    \/ PlaceLiveBet(1, "m1", K_total_over_bad, 20, 200, OpenSnap, TRUE)
    \/ \E rq \in ConcRequests : PlaceBet(rq.user, "m1", rq.key, rq.amount, OpenSnap, FALSE)
    \/ \E p \in PredChoices : MakePrediction(2, "m1", p)
    \/ \E s \in StatsSet : BotSettle("m1", s)
    \/ \E s \in StatsSet : AdvSettle("m1", s)
    \/ \E s \in StatsSet : AutoSettle("m1", s)

SpecBad == Init /\ [][BadNext]_vars

\* ------------------------------------------------- repair, then the schedulers
\* wagers are placed on a match id no periodic job has examined yet, the
\* operator re-points m1 to m2, and the three periodic jobs look at m2 with
\* complete statistics
RepairNext ==
    \/ \E rq \in ConcRequests, m \in Matches :
          /\ m \notin botSettled \cup apiSettled
          /\ PlaceBet(rq.user, m, rq.key, rq.amount, OpenSnap, FALSE)
    \/ \E p \in PredChoices : MakePrediction(2, "m1", p)
    \/ FixBets("m1", "m2")
    \/ \E s \in StatsSet : AutoSettle("m2", s)
    \/ \E s \in StatsSet : CheckAndSettle("m2", s)
    \/ \E s \in StatsSet : AutoSettleTask("m2", s)

SpecRepair == Init /\ [][RepairNext]_vars










\* ========================================================================
\* Properties of the sequential specification Spec
\* ========================================================================
Terminal(st) == st \in {"won", "lost", "returned", "sold"}

RECURSIVE SumAmounts(_)
SumAmounts(log) == IF log = <<>> THEN 0 ELSE Head(log).amount + SumAmounts(Tail(log))

RECURSIVE SumOver(_, _)
SumOver(S, f) ==
    IF S = {} THEN 0
    ELSE LET x == CHOOSE y \in S : TRUE IN f[x] + SumOver(S \ {x}, f)

\* the rows a step appends to a user's ledger
NewTx(u) == SubSeq(transactions'[u], Len(transactions[u]) + 1, Len(transactions'[u]))

\* the wagers of u that leave pending in a step, and the ones a step inserts
Leaving(u) ==
    {id \in DOMAIN bets : /\ bets[id].user = u
                          /\ bets[id].status = "pending"
                          /\ bets'[id].status # "pending"}

Placed(u) == {id \in DOMAIN bets' \ DOMAIN bets : bets'[id].user = u}

PredChanged(u) ==
    \E i \in DOMAIN predictions :
        predictions[i].user = u /\ predictions'[i].status # predictions[i].status

\* what a wager that has reached a terminal status is worth to its owner
Credit(row) ==
    CASE row.status = "won" -> IntMul(row.amount, row.odds)
      [] row.status = "returned" -> row.amount
      [] row.status = "sold" -> SellPrice(row.amount)
      [] OTHER -> 0

\* the sum of the deposit and referral rows a step appends for u
OtherCredits(u) ==
    LET new == NewTx(u)
        other == {i \in DOMAIN new : new[i].type \in {"deposit", "referral_bonus"}}
    IN SumOver(other, [i \in other |-> new[i].amount])

\* C1: a wager is created pending, is never deleted, keeps its terminal
\* status for ever, and a step changes a balance only on behalf of wagers
\* that leave pending or are placed in that step (or by a deposit / bonus).
C1_PendingOnce ==
    [][/\ Len(bets') >= Len(bets)
       /\ \A id \in DOMAIN bets :
            /\ [bets'[id] EXCEPT !.status = "x", !.match = "x"]
                  = [bets[id] EXCEPT !.status = "x", !.match = "x"]
            /\ Terminal(bets[id].status) => bets'[id] = bets[id]
       /\ \A id \in DOMAIN bets' \ DOMAIN bets : bets'[id].status = "pending"
       /\ \A u \in Users :
            ~PredChanged(u) =>
               balance'[u] - balance[u] =
                    SumOver(Leaving(u), [id \in Leaving(u) |-> Credit(bets'[id])])
                  - SumOver(Placed(u), [id \in Placed(u) |-> bets'[id].amount])
                  + OtherCredits(u)
      ]_vars

\* one wager has been sold back and another has been settled: both are
\* terminal while further handlers run
C1_Witness ==
    \E i, j \in DOMAIN bets :
        /\ bets[i].status = "sold"
        /\ bets[j].status \in {"won", "lost", "returned"}

\* C2: settlement is idempotent. From every reachable database, a second
\* invocation of the same entry point on the same match with the same
\* statistics leaves every balance, wager, prediction and ledger row as
\* the first invocation left them.
C2_Idempotent ==
    \A m \in Matches, s \in StatsSet :
        LET bot1 == settle_all_bets(DB, m, s).db
            adv1 == settle_all_bets_advanced(DB, m, ApiStats(s)).db
            exact == ScoreLine(s.home_score, s.away_score)
            db1 == settle_all_for_match(DB, m, s.outcome, exact).db
        IN /\ settle_all_bets(bot1, m, s).db = bot1
           /\ settle_all_bets_advanced(adv1, m, ApiStats(s)).db = adv1
           /\ settle_all_for_match(db1, m, s.outcome, exact).db = db1

\* a bot pass has settled two wagers of a match, one of them won and paid;
\* a second pass over the match meets them and changes nothing
C2_Witness ==
    \E i, j \in DOMAIN bets :
        /\ i # j
        /\ bets[i].match = bets[j].match
        /\ bets[i].status = "won"
        /\ \E k \in DOMAIN transactions[bets[i].user] :
              /\ transactions[bets[i].user][k].type = "bet_win"
              /\ transactions[bets[i].user][k].reference_id = i
        /\ bets[j].status \in {"won", "lost"}
        /\ settle_all_bets(DB, bets[j].match, S20).db = DB

\* what the wagers, deposits and bonuses of u entitle u to hold
Owed(u) ==
    LET mine == UserBets(DB, u)
        log == transactions[u]
        ref == {i \in DOMAIN log : log[i].type \in {"referral_bonus", "deposit"}}
    IN WelcomeBonus
       + SumOver(ref, [i \in ref |-> log[i].amount])
       - SumOver(mine, [id \in mine |-> bets[id].amount])
       + SumOver(mine, [id \in mine |-> Credit(bets[id])])

NoPredictions(u) == \A i \in DOMAIN predictions : predictions[i].user # u

\* C3: when the statements of a bot pass and of an API pass on the same
\* match interleave, a wager that has a terminal status keeps it, and no
\* user ever holds more than the wagers paid or refunded once entitle to.
C3_NoDoubleCredit ==
    [][/\ \A id \in DOMAIN bets :
            Terminal(bets[id].status) => bets'[id].status = bets[id].status
       /\ \A u \in Users :
            NoPredictions(u)' => balance'[u] <= Owed(u)'
      ]_vars

\* C11: a settlement credit racing a placement of the same user is
\* serializable: whenever no call is in progress, the user holds the
\* starting balance minus the stakes plus the credits, each applied once.
C11_RaceSerializable ==
    AtRest => \A u \in Users : NoPredictions(u) => balance[u] = Owed(u)

\* the ledger rows that record a payout or refund of wager id
CreditRows(id) ==
    LET log == transactions[bets[id].user]
    IN {i \in DOMAIN log : /\ log[i].reference_id = id
                           /\ log[i].type \in {"bet_win", "refund"}
                           /\ log[i].amount > 0}

\* C12: per-wager settlement is all-or-nothing. Whenever no call is in
\* progress (also after a call was cut short between two statements), a
\* wager is won or returned exactly when its credit is in the balance and
\* its ledger row is written.
C12_AllOrNothing ==
    AtRest =>
        /\ \A id \in DOMAIN bets :
              bets[id].status \in {"won", "returned"} <=> CreditRows(id) # {}
        /\ \A u \in Users : NoPredictions(u) => balance[u] = Owed(u)

InitialBalance == 0

\* C4: ledger conservation. For every user the ledger amounts sum to
\* balance - initial_balance and the last row's balance_after is
\* initial_balance + that sum.
C4_LedgerConservation ==
    \A u \in Users :
        LET log == transactions[u]
        IN /\ SumAmounts(log) = balance[u] - InitialBalance
           /\ log[Len(log)].balance_after = InitialBalance + SumAmounts(log)

\* C5: every ledger row has balance_after - balance_before = amount and the
\* newest row of every user carries the current balance.
C5_EntryConsistent ==
    \A u \in Users :
        LET log == transactions[u]
        IN /\ \A i \in DOMAIN log :
                /\ log[i].balance_before # NULL
                /\ log[i].balance_after # NULL
                /\ log[i].balance_after - log[i].balance_before = log[i].amount
           /\ log[Len(log)].balance_after = balance[u]

\* the wagers of u that a step takes from pending to status st
Becomes(u, st) ==
    {id \in DOMAIN bets : /\ bets[id].user = u
                          /\ bets[id].status = "pending"
                          /\ bets'[id].status = st}

\* the rows a step appends to the ledger of u that reference wager id
NewTxFor(u, id) ==
    {i \in DOMAIN NewTx(u) :
        NewTx(u)[i].reference_id = id
        /\ NewTx(u)[i].type \in {"bet_win", "bet_lose", "bet_sell", "refund"}}

\* C6: a wager that becomes won has potential_payout = floor(stake * price),
\* gets exactly one new ledger row of +potential_payout, and its owner's
\* balance grows by the payouts (and refunds) of that step.
C6_SettleWon ==
    [][\A u \in Users :
         Becomes(u, "won") # {} =>
            /\ \A id \in Becomes(u, "won") :
                  /\ bets[id].potential_win = IntMul(bets[id].amount, bets[id].odds)
                  /\ Cardinality(NewTxFor(u, id)) = 1
                  /\ \A i \in NewTxFor(u, id) :
                        NewTx(u)[i].amount = bets[id].potential_win
            /\ ~PredChanged(u) =>
                  balance'[u] - balance[u] =
                    SumOver(Leaving(u), [id \in Leaving(u) |-> Credit(bets'[id])])
      ]_vars

\* Push as section 4.4 defines it: the statistic lands exactly on a
\* whole-number line, a draw-no-bet wager meets a draw, a handicap sums to 0
IsPush(key, s) ==
    LET t == key.tag
        l == key.line
        OnLine(stat) == l # BadLine /\ l % 10 = 0 /\ stat * 10 = l
    IN CASE t \in {"total_over_", "total_under_"} -> OnLine(s.total_goals)
         [] t \in {"corners_over_", "corners_under_"} -> OnLine(s.total_corners)
         [] t \in {"cards_over_", "cards_under_"} -> OnLine(s.total_yellow)
         [] t \in {"home_over_", "home_under_"} -> OnLine(s.home_score)
         [] t \in {"away_over_", "away_under_"} -> OnLine(s.away_score)
         [] t \in {"dnb_home", "dnb_away"} -> s.outcome = "draw"
         [] t = "handicap_home_" -> l # BadLine /\ (s.home_score - s.away_score) * 10 + l = 0
         [] t = "handicap_away_" -> l # BadLine /\ (s.away_score - s.home_score) * 10 + l = 0
         [] OTHER -> FALSE

\* the databases the three entry points leave for match m and statistics s
SettleResults(m, s) ==
    {settle_all_bets(DB, m, s).db,
     settle_all_bets_advanced(DB, m, ApiStats(s)).db,
     settle_all_for_match(DB, m, s.outcome, ScoreLine(s.home_score, s.away_score)).db}

\* C7: at every settlement entry point a pending wager that is a push gets
\* status returned, and its owner (with nothing else pending on the match)
\* gets exactly the stake back.
C7_SettlePush ==
    \A m \in Matches, s \in StatsSet :
      \A r \in SettleResults(m, s) :
        \A id \in DOMAIN bets :
            (PendingSel(DB, m, id) /\ IsPush(bets[id].key, s)) =>
                /\ r.bets[id].status = "returned"
                /\ (/\ \A j \in DOMAIN bets :
                          (PendingSel(DB, m, j) /\ bets[j].user = bets[id].user) => j = id
                    /\ \A j \in DOMAIN predictions :
                          predictions[j].user # bets[id].user)
                   => r.balance[bets[id].user] = balance[bets[id].user] + bets[id].amount

\* C8: a wager that becomes lost leaves its owner's balance to the other
\* wagers of the step and gets exactly one new zero-amount ledger row.
C8_SettleLost ==
    [][\A u \in Users :
         Becomes(u, "lost") # {} =>
            /\ \A id \in Becomes(u, "lost") :
                  /\ Cardinality(NewTxFor(u, id)) = 1
                  /\ \A i \in NewTxFor(u, id) : NewTx(u)[i].amount = 0
            /\ ~PredChanged(u) =>
                  balance'[u] - balance[u] =
                    SumOver(Leaving(u), [id \in Leaving(u) |-> Credit(bets'[id])])
      ]_vars

Min(a, b) == IF a < b THEN a ELSE b

\* the "bet" rows a step appends to the ledger of u
NewBetRows(u) == {i \in DOMAIN NewTx(u) : NewTx(u)[i].type = "bet"}

\* what a successful placement does to the wager table, the stake holder's
\* playthrough and the ledger row of the stake
PlacementCore(id) ==
    LET row == bets'[id]
        u == row.user
    IN /\ bets' = Append(bets, row)
       /\ row.amount > 0
       /\ row.amount <= balance[u]
       /\ row.status = "pending"
       /\ row.potential_win = IntMul(row.amount, row.odds)
       /\ wager_remaining'[u] = wager_remaining[u] - Min(wager_remaining[u], row.amount)
       /\ \A v \in Users \ {u} : wager_remaining'[v] = wager_remaining[v]
       /\ Cardinality(NewBetRows(u)) = 1
       /\ \A i \in NewBetRows(u) :
             /\ NewTx(u)[i].amount = -row.amount
             /\ NewTx(u)[i].reference_id = id

\* C9 as stated: a successful placement lowers the balance by exactly the
\* stake, lowers wager_remaining by min(wager_remaining, stake), inserts one
\* pending wager with potential_payout = floor(stake * price), appends
\* exactly one ledger row of -stake, and touches nothing else.
C9_PlaceSuccess_Stated ==
    [][Len(bets') > Len(bets) =>
         LET id == Len(bets')
             u == bets'[id].user
         IN /\ PlacementCore(id)
            /\ balance'[u] = balance[u] - bets'[id].amount
            /\ Len(NewTx(u)) = 1
            /\ \A v \in Users \ {u} :
                  balance'[v] = balance[v] /\ transactions'[v] = transactions[v]
      ]_vars

\* the referral bonus due with the placement a step makes for u
BonusDue(u) ==
    IF /\ referred_by[u] # NULL
       /\ UserBets(DB, u) = {}
       /\ \A i \in DOMAIN transactions[u] : transactions[u][i].type # "referral_bonus"
    THEN ReferralBonus ELSE 0

\* C9 (amended): as stated, except that the first wager of a referred user
\* also credits the referral bonus of 25 to the user and to the referrer,
\* each with one referral_bonus ledger row.
C9_PlaceSuccess ==
    [][Len(bets') > Len(bets) =>
         LET id == Len(bets')
             u == bets'[id].user
             bonus == BonusDue(u)
             paid == IF bonus > 0 THEN {referred_by[u]} ELSE {}
         IN /\ PlacementCore(id)
            /\ balance'[u] = balance[u] - bets'[id].amount + bonus
            /\ Len(NewTx(u)) = IF bonus > 0 THEN 2 ELSE 1
            /\ \A i \in DOMAIN NewTx(u) \ NewBetRows(u) :
                  /\ NewTx(u)[i].type = "referral_bonus"
                  /\ NewTx(u)[i].amount = ReferralBonus
            /\ \A v \in paid :
                  /\ balance'[v] = balance[v] + ReferralBonus
                  /\ Len(NewTx(v)) = 1
                  /\ NewTx(v)[1].type = "referral_bonus"
                  /\ NewTx(v)[1].amount = ReferralBonus
            /\ \A v \in Users \ ({u} \cup paid) :
                  balance'[v] = balance[v] /\ transactions'[v] = transactions[v]
      ]_vars

\* user 1 has staked 20 of a deposit's playthrough, and the referred user 2
\* has placed a first wager that came with the bonus
C9_Witness ==
    /\ Len(bets) = 2
    /\ wager_remaining[1] = DepositAmount - 20
    /\ bets[2].user = 2
    /\ balance[2] = WelcomeBonus - bets[2].amount + ReferralBonus
    /\ \E i \in DOMAIN transactions[1] : transactions[1][i].type = "referral_bonus"

\* stakes a request may carry: negative, zero, and above any balance
RejectAmounts == {-20, 0, 31, 51, 400}

\* C10: a placement whose stake is not positive or exceeds the balance is
\* rejected and leaves balances, playthrough, wagers and ledger as they were.
C10_PlaceRejected ==
    \A u \in Users, m \in PlaceMatches, key \in PlaceKeys,
       amount \in RejectAmounts, snap \in Snapshots, late \in BOOLEAN :
        (amount <= 0 \/ amount > balance[u]) =>
            LET r == place_bet_endpoint(DB, referred_by[u], u, m, key, amount, snap, late)
            IN r.ok = FALSE /\ r.db = DB

\* user 1 holds 30 after one wager: a stake of 31 on an open market is
\* turned down while a stake of 30 would be taken
C10_Witness ==
    /\ balance[1] = 30
    /\ Len(bets) = 1
    /\ ~place_bet_endpoint(DB, referred_by[1], 1, "m1", K_home, 31, OpenSnap, FALSE).ok
    /\ place_bet_endpoint(DB, referred_by[1], 1, "m1", K_home, 30, OpenSnap, FALSE).ok

\* ------------------------------------------------ resolver rules (4.4)
\* the wager status a resolve result stands for
StatusOf(result) ==
    CASE result = "won" -> "won"
      [] result = "lost" -> "lost"
      [] result = "push" -> "returned"
      [] result = None -> "pending"

\* the databases the two resolver-driven passes leave for match m
ResolverResults(m, s) ==
    {settle_all_bets(DB, m, s).db, settle_all_bets_advanced(DB, m, ApiStats(s)).db}

\* wager id is the only thing of its owner that a pass over m can touch
OnlyPending(m, id) ==
    /\ \A j \in DOMAIN bets :
          (PendingSel(DB, m, j) /\ bets[j].user = bets[id].user) => j = id
    /\ \A j \in DOMAIN predictions : predictions[j].user # bets[id].user

\* section 4.4 for {family}_over_{line} / {family}_under_{line}
ResolveOverUnder(key, s) ==
    LET v == FamilyStat(key.tag, s) * 10
    IN IF key.line % 10 = 0 /\ v = key.line THEN "push"
       ELSE IF key.tag \in OverTags THEN Bool(v > key.line)
       ELSE Bool(v < key.line)

\* C13: for each of the nine over/under families both resolvers give Push
\* when the statistic equals a whole-number line, and otherwise Won exactly
\* when the statistic is strictly above (over) / below (under) the line; the
\* pass leaves the wager in the matching status.
C13_PushOnIntegerLine ==
    \A s \in ResolveStats, id \in DOMAIN bets :
        (PendingSel(DB, "m1", id) /\ bets[id].key \in OverUnderKeys) =>
            LET expected == ResolveOverUnder(bets[id].key, s)
            IN /\ check_bet_won(bets[id].key, s) = expected
               /\ settle_bet_by_type(bets[id].key, ApiStats(s)) = expected
               /\ \A r \in ResolverResults("m1", s) :
                     r.bets[id].status = StatusOf(expected)

\* section 4.4 for handicap_{side}_{line}: d = side - other + line
ResolveHandicap(key, s) ==
    LET d == IF key.tag = "handicap_home_"
             THEN (s.home_score - s.away_score) * 10 + key.line
             ELSE (s.away_score - s.home_score) * 10 + key.line
    IN IF d = 0 THEN "push" ELSE Bool(d > 0)

\* C14: a handicap wager is Push when side - other + line is 0, Won when it
\* is positive and Lost when it is negative, at both resolvers, and the pass
\* leaves the wager in the matching status.
C14_Handicap ==
    \A s \in ResolveStats, id \in DOMAIN bets :
        (PendingSel(DB, "m1", id)
         /\ bets[id].key \in {K_handicap_home_1, K_handicap_away_m1}) =>
            LET expected == ResolveHandicap(bets[id].key, s)
            IN /\ check_bet_won(bets[id].key, s) = expected
               /\ settle_bet_by_type(bets[id].key, ApiStats(s)) = expected
               /\ \A r \in ResolverResults("m1", s) :
                     r.bets[id].status = StatusOf(expected)

\* section 4.4 for dnb_home / dnb_away
ResolveDnb(key, s) ==
    IF s.outcome = "draw" THEN "push"
    ELSE Bool(s.outcome = (IF key.tag = "dnb_home" THEN "home" ELSE "away"))

\* C15: a draw-no-bet wager on a drawn match is Push and its stake comes
\* back to the balance; on any other outcome it is Won exactly when the
\* outcome is its side.
C15_DrawNoBet ==
    \A s \in ResolveStats, id \in DOMAIN bets :
        (PendingSel(DB, "m1", id) /\ bets[id].key \in {K_dnb_home, K_dnb_away}) =>
            LET expected == ResolveDnb(bets[id].key, s)
            IN /\ check_bet_won(bets[id].key, s) = expected
               /\ settle_bet_by_type(bets[id].key, ApiStats(s)) = expected
               /\ \A r \in ResolverResults("m1", s) :
                     /\ r.bets[id].status = StatusOf(expected)
                     /\ (expected = "push" /\ OnlyPending("m1", id)) =>
                           r.balance[bets[id].user] =
                               balance[bets[id].user] + bets[id].amount

\* the ledger rows of wager id's owner that reference the wager
RowsFor(d, id) ==
    LET log == d.transactions[d.bets[id].user]
    IN {i \in DOMAIN log : log[i].reference_id = id /\ log[i].type # "referral_bonus"}

\* the pass that produced r left wager id alone
Deferred(r, id) ==
    /\ r.bets[id].status = "pending"
    /\ OnlyPending("m1", id) => r.balance[bets[id].user] = balance[bets[id].user]
    /\ RowsFor(r, id) = RowsFor(DB, id)

\* C16: with no first-goal side in the statistics, a first_goal_home/away/
\* none wager resolves to Undetermined and the pass leaves it pending, with
\* no balance change and no ledger row for it.
C16_UndeterminedDefers ==
    \A s \in ResolveStats, id \in DOMAIN bets :
        (PendingSel(DB, "m1", id)
         /\ bets[id].key \in {K_first_goal_home, K_first_goal_none}) =>
            /\ s.first_goal = "" =>
                  /\ check_bet_won(bets[id].key, s) = None
                  /\ Deferred(settle_all_bets(DB, "m1", s).db, id)
            /\ ApiStats(s).first_goal = "" =>
                  Deferred(settle_all_bets_advanced(DB, "m1", ApiStats(s)).db, id)

\* the keys of ResolveKeys and LiveRequestKeys outside section 4.1's vocabulary
NonCanonical(key) == key.tag \in {"unknown", "first_goal_x"}

\* C18: at every settlement entry point a pending wager whose key is not in
\* the canonical vocabulary becomes lost and settlement leaves its owner's
\* balance as it was.
C18_UnknownKeyLost ==
    \A s \in ResolveStats, id \in DOMAIN bets :
        (PendingSel(DB, "m1", id) /\ NonCanonical(bets[id].key)) =>
            \A r \in SettleResults("m1", s) :
                /\ r.bets[id].status = "lost"
                /\ OnlyPending("m1", id) =>
                      r.balance[bets[id].user] = balance[bets[id].user]

\* ------------------------------------------------------ scheduler (4.5)
\* C17: whenever a first-goal wager is pending, a bot scheduler pass whose
\* statistics are complete and carry the first goal side resolves it to a
\* terminal status, whatever earlier passes did to the match.
C17_RetriedWhenDerivable ==
    \A s \in SchedStats, id \in DOMAIN bets :
        (/\ PendingSel(DB, "m1", id)
         /\ bets[id].key = K_first_goal_home
         /\ match_data_complete(s)
         /\ s.first_goal # "") =>
            Terminal(auto_settle(DB, botSettled, "m1", s).db.bets[id].status)

\* a wager or prediction of match m leaves pending in this step
Affected(m) ==
    \/ \E id \in DOMAIN bets :
          bets[id].match = m /\ bets[id].status = "pending"
          /\ bets'[id].status # "pending"
    \/ \E id \in DOMAIN predictions :
          predictions[id].match = m /\ predictions[id].status = "pending"
          /\ predictions'[id].status # "pending"

\* an earlier pass was effective for match m: it settled a wager or a
\* prediction of m
Settled(m) ==
    \/ \E id \in DOMAIN bets : bets[id].match = m /\ bets[id].status # "pending"
    \/ \E id \in DOMAIN predictions :
          predictions[id].match = m /\ predictions[id].status # "pending"

\* C19: a scheduler pass that affects a wager or prediction of a match
\* leaves the match marked settled, and once a pass has been effective for
\* a match no later pass affects anything of that match.
C19_SchedulerDedup ==
    [][\A m \in Matches :
          /\ Affected(m) => m \in botSettled' \cup apiSettled'
          /\ Settled(m) => ~Affected(m)
      ]_vars

\* C20: a match that a scheduler has marked settled has no pending wager.
C20_MarkedHasNoPending ==
    \A m \in botSettled \cup apiSettled : PendingBets(DB, m) = <<>>

\* match m has a pending wager or a pending prediction
HasPending(m) == PendingBets(DB, m) # <<>> \/ PendingPreds(DB, m) # <<>>

\* C21: on statistics that fail the completeness check no scheduler pass
\* changes a wager, a prediction or a balance of the match, and none marks
\* the match settled.
C21_IncompleteDefers ==
    \A s \in SchedStats :
        (~match_data_complete(s) /\ HasPending("m1")) =>
            /\ auto_settle(DB, botSettled, "m1", s) = Pass(DB, botSettled)
            /\ check_and_settle(DB, apiSettled, "m1", s) = Pass(DB, apiSettled)
            /\ auto_settle_task(DB, apiSettled, "m1", s) = Pass(DB, apiSettled)

\* C22: a bot scheduler pass over a match that is not marked settled, has
\* complete statistics and a pending prediction settles that prediction,
\* also when the match has no pending wager.
C22_PredictionsNotSkipped ==
    \A s \in SchedStats :
        (/\ "m1" \notin botSettled
         /\ match_data_complete(s)
         /\ PendingPreds(DB, "m1") # <<>>) =>
            PendingPreds(auto_settle(DB, botSettled, "m1", s).db, "m1") = <<>>

\* ------------------------------------------------------------ predictions
\* prediction id is the only thing of its owner that a pass over m can touch
OnlyPendingPred(m, id) ==
    /\ \A j \in DOMAIN predictions :
          (predictions[j].user = predictions[id].user /\ predictions[j].match = m
           /\ predictions[j].status = "pending") => j = id
    /\ \A j \in DOMAIN bets :
          bets[j].user = predictions[id].user => ~PendingSel(DB, m, j)

\* C23: at every settlement entry point a pending prediction becomes
\* correct exactly when it equals stats.outcome and incorrect otherwise,
\* and the owner's balance moves by one and the same amount whichever entry
\* point settles it.
C23_PredictionSettlement ==
    \A m \in Matches, s \in StatsSet, id \in DOMAIN predictions :
        (predictions[id].match = m /\ predictions[id].status = "pending") =>
            /\ \A r \in SettleResults(m, s) :
                  r.predictions[id].status =
                      IF predictions[id].prediction = s.outcome
                      THEN "correct" ELSE "incorrect"
            /\ OnlyPendingPred(m, id) =>
                  \A r1, r2 \in SettleResults(m, s) :
                      r1.balance[predictions[id].user] = r2.balance[predictions[id].user]

\* -------------------------------------------------------------- sell-back
\* C24: a sell-back request succeeds only for a pending wager of the caller
\* before the cutoff; every rejected request leaves the database as it was.
C24_SellGuard ==
    \A u \in Users, id \in 1..MaxBets, late \in BOOLEAN :
        LET r == sell_bet_endpoint(DB, u, id, late)
        IN /\ r.ok => /\ id \in DOMAIN bets
                      /\ bets[id].user = u
                      /\ bets[id].status = "pending"
                      /\ ~late
           /\ ~r.ok => r.db = DB

\* one wager has been sold, so that selling it again is refused, and
\* another one is pending for which only the cutoff decides
C24_Witness ==
    \E i, j \in DOMAIN bets :
        /\ bets[i].status = "sold"
        /\ ~sell_bet_endpoint(DB, bets[i].user, i, FALSE).ok
        /\ bets[j].status = "pending"
        /\ sell_bet_endpoint(DB, bets[j].user, j, FALSE).ok
        /\ ~sell_bet_endpoint(DB, bets[j].user, j, TRUE).ok

\* C25: a successful sell-back sets the wager's status to sold and nothing
\* else in the wager table, credits max(1, floor(stake / 2)) to the owner
\* and appends exactly one ledger row of that amount referencing the wager.
C25_SellEffect ==
    \A u \in Users, id \in 1..MaxBets :
        LET r == sell_bet_endpoint(DB, u, id, FALSE)
            half == bets[id].amount \div 2
            price == IF half >= 1 THEN half ELSE 1
        IN r.ok =>
            /\ r.db.bets = [bets EXCEPT ![id].status = "sold"]
            /\ r.db.balance = [balance EXCEPT ![u] = @ + price]
            /\ Len(r.db.transactions[u]) = Len(transactions[u]) + 1
            /\ SubSeq(r.db.transactions[u], 1, Len(transactions[u])) = transactions[u]
            /\ LET row == r.db.transactions[u][Len(r.db.transactions[u])]
               IN row.amount = price /\ row.reference_id = id /\ row.type = "bet_sell"
            /\ \A v \in Users \ {u} : r.db.transactions[v] = transactions[v]

\* a wager of stake 1 has been sold for 1 and one of stake 3 can be sold
C25_Witness ==
    \E i, j \in DOMAIN bets :
        /\ bets[i].status = "sold" /\ bets[i].amount = 1
        /\ \E k \in DOMAIN transactions[bets[i].user] :
              LET row == transactions[bets[i].user][k]
              IN row.type = "bet_sell" /\ row.reference_id = i /\ row.amount = 1
        /\ bets[j].amount = 3
        /\ sell_bet_endpoint(DB, bets[j].user, j, FALSE).ok

FrozenPayout(row) == (row.amount * row.odds) \div 100

\* what a step that settles wager id credits for it
SettleCredit(id) ==
    CASE bets'[id].status = "won" -> FrozenPayout(bets[id])
      [] bets'[id].status = "returned" -> bets[id].amount
      [] OTHER -> 0

\* C27: no step changes the stake, price or potential payout of an existing
\* wager, a new wager stores floor(stake * price), and the owner of wagers
\* that become won is credited floor(stake * stored price) for each of them.
C27_PriceFreeze ==
    [][/\ \A id \in DOMAIN bets :
             /\ id \in DOMAIN bets'
             /\ bets'[id].amount = bets[id].amount
             /\ bets'[id].odds = bets[id].odds
             /\ bets'[id].potential_win = bets[id].potential_win
       /\ \A id \in DOMAIN bets' \ DOMAIN bets :
             bets'[id].potential_win = FrozenPayout(bets'[id])
       /\ \A u \in Users :
             (Becomes(u, "won") # {} /\ ~PredChanged(u)) =>
                 balance'[u] - balance[u] =
                     SumOver(Leaving(u), [id \in Leaving(u) |-> SettleCredit(id)])
      ]_vars

\* a wager taken at 1.85 has been won and paid 37 for a stake of 20 while
\* the feed now prices its key at 2.10
C27_Witness ==
    \E id \in DOMAIN bets :
        /\ bets[id].status = "won"
        /\ bets[id].key = K_home
        /\ bets[id].odds = 185 /\ bets[id].amount = 20 /\ bets[id].potential_win = 37
        /\ EndpointOdds(bets[id].key, RefreshedSnap) = 210
        /\ \E k \in DOMAIN transactions[bets[id].user] :
              LET row == transactions[bets[id].user][k]
              IN row.type = "bet_win" /\ row.reference_id = id /\ row.amount = 37

\* -------------------------------------------------------------- playthrough
\* the deposit rows a step appends to the ledger of u
NewDeposits(u) == {i \in DOMAIN NewTx(u) : NewTx(u)[i].type = "deposit"}

C29_PriceGuard ==
    \A k \in DOMAIN leonCache.odds :
        LET p == leonCache.odds[k]
        IN /\ p > 100
           /\ p <= 5000
           /\ \E i \in DOMAIN leonMarkets :
                 /\ leonMarkets[i].open
                 /\ \E j \in DOMAIN leonMarkets[i].runners :
                       LET r == leonMarkets[i].runners[j]
                       IN r.open /\ r.price # 0 /\ r.price = p

\* a parsed list with an open market that holds a usable runner and a
\* runner priced out of range, and a closed market that holds a usable runner
C29_Witness ==
    /\ DOMAIN leonCache.odds # {}
    /\ \E i, i2 \in DOMAIN leonMarkets :
          /\ leonMarkets[i].open
          /\ ~leonMarkets[i2].open
          /\ \E j \in DOMAIN leonMarkets[i].runners :
                leonMarkets[i].runners[j].price > 5000
          /\ \E j \in DOMAIN leonMarkets[i2].runners :
                RunnerOk(leonMarkets[i2].runners[j])


\* every order the feed can list the same markets and runners in
Perms(q) ==
    {[i \in DOMAIN q |-> q[f[i]]] :
        f \in {g \in [DOMAIN q -> DOMAIN q] : \A a, b \in DOMAIN q : a # b => g[a] # g[b]}}

RECURSIVE RunnerOrders(_)
RunnerOrders(q) ==
    IF q = <<>> THEN {<<>>}
    ELSE {<<[Head(q) EXCEPT !.runners = rs]>> \o t :
             rs \in Perms(Head(q).runners), t \in RunnerOrders(Tail(q))}

Rearrangements(markets) == UNION {RunnerOrders(q) : q \in Perms(markets)}

\* C30: normalizing any permutation of the raw list, and of the runners
\* inside each market, yields the mapping the cache holds for the list as
\* it came, also when two markets or runners map to the same key with
\* different prices.
C30_Determinism ==
    leonCache = parse_leon_markets(leonMarkets) =>
        \A ms \in Rearrangements(leonMarkets) :
            parse_leon_markets(ms).odds = leonCache.odds


\* a raw market that puts at least one price into the mapping
Contributes(market) == DOMAIN parse_market(NotFetched, market).odds # {}

\* C31: the market count of a parsed list is the number of raw markets that
\* contributed at least one usable price; a matched market all of whose
\* runners are rejected is not counted.
C31_MarketCount ==
    leonCache = parse_leon_markets(leonMarkets) =>
        leonCache.open_markets =
            Cardinality({i \in DOMAIN leonMarkets : Contributes(leonMarkets[i])})


\* ---------------------------------------------------------------- catalog
\* the over/under families of the catalog: key prefix, market type, highest
\* line listed (NoCap: none)
CatalogFamilies ==
    {[prefix |-> "total", type |-> "total_goals", cap |-> 105],
     [prefix |-> "home", type |-> "home_total", cap |-> 75],
     [prefix |-> "away", type |-> "away_total", cap |-> 75],
     [prefix |-> "corners", type |-> "total_corners", cap |-> 200],
     [prefix |-> "corners_home", type |-> "corners_home", cap |-> NoCap],
     [prefix |-> "corners_away", type |-> "corners_away", cap |-> NoCap],
     [prefix |-> "cards", type |-> "total_cards", cap |-> 120],
     [prefix |-> "cards_home", type |-> "cards_home", cap |-> NoCap],
     [prefix |-> "cards_away", type |-> "cards_away", cap |-> NoCap]}

\* the tally the score fixes for a family; a score that cannot be read is 0:0
Tally(prefix, score) ==
    LET hs == IF score.ok THEN score.hs ELSE 0
        as == IF score.ok THEN score.as ELSE 0
    IN CASE prefix = "total" -> hs + as
         [] prefix = "home" -> hs
         [] prefix = "away" -> as
         [] OTHER -> 0

\* an over/under line the tally has already passed: over is won, under lost
Decided(f, line, score) == Tally(f.prefix, score) * 10 > line

\* the keys listed by the markets of a type
Listed(markets, type) ==
    UNION {{markets[i].bets[j].key : j \in DOMAIN markets[i].bets} :
              i \in {x \in DOMAIN markets : markets[x].type = type}}

Ascending(markets) ==
    \A i \in DOMAIN markets :
        markets[i].type \in {f.type : f \in CatalogFamilies} =>
            \A a, b \in DOMAIN markets[i].bets :
                a < b => markets[i].bets[a].key.line <= markets[i].bets[b].key.line

NoDecidedOption ==
    \A f \in CatalogFamilies : \A k \in Listed(betMarkets, f.type) :
        ~Decided(f, k.line, liveScore)

PairRemains(f, l) ==
    {Key(f.prefix \o "_over_", l), Key(f.prefix \o "_under_", l)}
        \subseteq Listed(betMarkets, f.type)

PairPresent(f, l) ==
    {Key(f.prefix \o "_over_", l), Key(f.prefix \o "_under_", l)}
        \subseteq DOMAIN leonCache.odds

CatalogLines == {k.line : k \in CatalogKeys}

\* C32 as stated: no listed option is decided by the score, every undecided
\* line present as an over/under pair is listed, lines ascend.
C32_SuppressionAnyLine ==
    betMarkets = build_live_markets(leonCache.odds, liveScore) =>
        /\ NoDecidedOption
        /\ Ascending(betMarkets)
        /\ \A f \in CatalogFamilies, l \in CatalogLines :
              PairPresent(f, l) /\ ~Decided(f, l, liveScore) => PairRemains(f, l)

\* C32, amended: no listed option is decided by the score; every undecided
\* line that is present as an over/under pair and is not above the highest
\* line of its family is listed; lines ascend within a market.
C32_Suppression ==
    betMarkets = build_live_markets(leonCache.odds, liveScore) =>
        /\ NoDecidedOption
        /\ Ascending(betMarkets)
        /\ \A f \in CatalogFamilies, l \in CatalogLines :
              /\ PairPresent(f, l)
              /\ ~Decided(f, l, liveScore)
              /\ (f.cap = NoCap \/ l <= f.cap)
              => PairRemains(f, l)

\* at 2:1 the snapshot holds the pairs of total 1.5 and 3.5 and of home 1.5:
\* the catalog lists total 3.5 and neither total 1.5 nor home 1.5
C32_Witness ==
    /\ liveScore = ScoreText(TRUE, 2, 1)
    /\ \A l \in {15, 35} : PairPresent([prefix |-> "total"], l)
    /\ PairPresent([prefix |-> "home"], 15)
    /\ Listed(betMarkets, "total_goals") =
          {Key("total_over_", 35), Key("total_under_", 35)}
    /\ Listed(betMarkets, "home_total") = {}


\* ----------------------------------------------------------------- repair
\* C33: re-pointing m1 to m2 moves every pending wager and every pending
\* prediction that carries m1 to m2 and changes nothing else: settled rows
\* keep m1, and no status, stake, price, balance or ledger row changes.
C33_RepairMoves ==
    LET d == fixbets_cmd(DB, "m1", "m2")
        Moved(old, new) ==
            IF old.match = "m1" /\ old.status = "pending"
            THEN new = [old EXCEPT !.match = "m2"]
            ELSE new = old
    IN /\ DOMAIN d.bets = DOMAIN bets
       /\ DOMAIN d.predictions = DOMAIN predictions
       /\ \A i \in DOMAIN bets : Moved(bets[i], d.bets[i])
       /\ \A i \in DOMAIN predictions : Moved(predictions[i], d.predictions[i])
       /\ d.balance = balance
       /\ d.wager_remaining = wager_remaining
       /\ d.transactions = transactions


\* ------------------------------------------------------ balance is a floor
\* C34: no user's balance is ever negative, after placements, sell-backs,
\* wager settlements and prediction penalties in any order or interleaving.
C34_BalanceNonNegative == \A u \in Users : balance[u] >= 0


\* ------------------------------------------- sell-back against settlement
SoldRows(u) ==
    {transactions[u][i].reference_id :
        i \in {x \in DOMAIN transactions[u] : transactions[u][x].type = "bet_sell"}}

PaidRows(u) ==
    {transactions[u][i].reference_id :
        i \in {x \in DOMAIN transactions[u] :
                  transactions[u][x].type \in {"bet_win", "bet_lose", "refund"}}}

\* C35: a wager that was sold back stays sold and is never also settled: its
\* owner has no settlement ledger row for it beside the sell-back row, in
\* every interleaving of the sell-back with a settlement pass.
C35_SellOrSettle ==
    \A u \in Users : \A id \in SoldRows(u) :
        /\ bets[id].status = "sold"
        /\ id \notin PaidRows(u)


\* ------------------------------------------------- entry points compared
\* C36: for a match with a pending wager and final statistics with a known
\* first-goal side, settle_all_bets, settle_all_bets_advanced and
\* settle_all_for_match leave the same wager statuses, the same balances
\* and the same ledger rows.
C36_EntryPointsAgree ==
    \A m \in Matches, s \in StatsSet :
        (PendingBets(DB, m) # <<>> /\ s.first_goal # "") =>
            LET bot == settle_all_bets(DB, m, s).db
                adv == settle_all_bets_advanced(DB, m, ApiStats(s)).db
                dbm == settle_all_for_match(DB, m, s.outcome,
                                            ScoreLine(s.home_score, s.away_score)).db
            IN /\ bot.bets = adv.bets /\ adv.bets = dbm.bets
               /\ bot.balance = adv.balance /\ adv.balance = dbm.balance
               /\ bot.transactions = adv.transactions
               /\ adv.transactions = dbm.transactions


\* ------------------------------------------------------ resolver coverage
\* C37: every stored wager on a key of the feed, live or not, is resolved
\* under the rule of its market by both resolvers: for each there are final
\* statistics on which the wager is won, so that it is never lost by the
\* unknown-key default.
C37_ResolverCoverage ==
    \A i \in DOMAIN bets :
        /\ \E s \in CoverStats : check_bet_won(bets[i].key, s) = "won"
        /\ \E s \in CoverStats : settle_bet_by_type(bets[i].key, s) = "won"


\* --------------------------------------------------------- recorded price
\* the price some snapshot of the feed gives for a key
FeedPrices(k) ==
    {snap.live_odds[k] : snap \in {x \in Snapshots \cup {RefreshedSnap} :
                                      k \in DOMAIN x.live_odds}}

\* C38: the price recorded on every wager is > 1.0 and <= 50.0; for a
\* pre-match wager it is the feed's price of the key or the fixed exact-score
\* price, for a live wager it is the feed's price of the key, never a price
\* of the client's, also when the feed has no price for the key.
C38_RecordedPrice ==
    \A i \in DOMAIN bets :
        LET k == bets[i].key
            plain == [k EXCEPT !.live = FALSE]
        IN /\ bets[i].odds > 100
           /\ bets[i].odds <= 5000
           /\ IF k.live THEN bets[i].odds \in FeedPrices(plain)
              ELSE \/ k.tag = "score_" /\ bets[i].odds = ScoreOdds
                   \/ bets[i].odds \in FeedPrices(k)


\* ------------------------------------------------- one bad wager in a pass
\* C39: when a pending wager of a match has a recognised prefix and a line
\* that cannot be read, a bot settlement pass still brings every other
\* pending wager whose result the statistics decide, and every pending
\* prediction of the match, to a terminal status.
C39_BadWagerDoesNotBlock ==
    \A s \in StatsSet :
        LET q == PendingBets(DB, "m1")
            d == settle_all_bets(DB, "m1", s).db
        IN (\E i \in DOMAIN q : check_bet_won(bets[q[i]].key, s) = Raise) =>
              /\ \A i \in DOMAIN q :
                    check_bet_won(bets[q[i]].key, s) \in {"won", "lost"} =>
                        d.bets[q[i]].status # "pending"
              /\ \A id \in DOMAIN predictions :
                    predictions[id].match = "m1" => d.predictions[id].status # "pending"


\* C40: whenever wagers are pending under the id of a finished match with
\* complete statistics (as they are after the operator re-pointed them), the
\* next pass of at least one periodic job, the bot's auto_settle or the api's
\* check_and_settle or auto_settle_task, leaves none of them pending, whatever
\* the jobs had seen of that match id before.
C40_RepairLeadsToSettlement ==
    \A s \in StatsSet :
        (match_data_complete(s) /\ Len(PendingBets(DB, "m2")) > 0) =>
            \E d \in {auto_settle(DB, botSettled, "m2", s).db,
                      check_and_settle(DB, apiSettled, "m2", s).db,
                      auto_settle_task(DB, apiSettled, "m2", s).db} :
                Len(PendingBets(d, "m2")) = 0

====
